---------------------------- MODULE Spec2Model ----------------------------
(***************************************************************************)
(* MCP tool invocation layer of gemini-cli (mcp-tool.ts, carried in        *)
(* src/packages/cli/src/ui/utils/imageUtils.ts from line 107 on):          *)
(*   - the trust / confirmation gate  (getConfirmationDetails, onConfirm)  *)
(*   - the invocation executor        (execute: call raced against abort)  *)
(*   - the tool / invocation factory  (DiscoveredMCPTool)                  *)
(* JavaScript runs the code on one thread: every action below is one       *)
(* synchronous run of a function, a promise reaction (microtask) or an     *)
(* event dispatch.                                                         *)
(***************************************************************************)
EXTENDS Naturals, Sequences, FiniteSets, TLC

(***************************************************************************)
(* Bounds of the model.                                                    *)
(***************************************************************************)
\* number of invocations that are inside execute at the same time
MaxExecuting == 1

\* the invocations that exist at the same time
Slots == {1, 2}

\* the last value of the clock
MaxClock == 1
\* number of responses normalized one after the other
MaxNormalized == 2
\* longest content list of a response
MaxBlocks == 2

(***************************************************************************)
(* Values.                                                                 *)
(***************************************************************************)
\* Names are sequences of characters.
\* nameOverride?: string
NoOverride == [given |-> FALSE]
Override(name) == [given |-> TRUE, value |-> name]
\* trust?: boolean is "true", "false" or "undefined"
ParamValues == {"{}"}
\* ToolConfirmationOutcome values a confirmation can be resolved with
Outcomes ==
  {"ProceedOnce", "ProceedAlways", "ProceedAlwaysServer", "ProceedAlwaysTool",
   "Cancel"}
\* errors the external call fails with
TransportErrors == {"ECONNRESET"}
\* the error of lines 271-272 and 278-279: name AbortError
AbortError == "AbortError"

\* JavaScript values of error.isError
JsTrue == [type |-> "boolean", value |-> "true"]
JsStringTrue == [type |-> "string", value |-> "true"]
JsFalse == [type |-> "boolean", value |-> "false"]

\* a raw response: one part with a functionResponse
RawResponse(name, response) ==
  <<[functionResponse |-> [name |-> name, response |-> response]]>>
TextContent == <<[type |-> "text", text |-> "done"]>>
\* an image whose file does not exist and that carries no payload
LostImageContent ==
  <<[type |-> "image", mimeType |-> "image/png", filePath |-> "/lost.png"]>>
\* the responses the external call fulfils with: a text, tool errors
\* flagged true and "true", an error object flagged false, a response
\* without a content list and an image that cannot be resolved
RawResponses ==
  { RawResponse("t", [content |-> TextContent]),
    RawResponse("t", [content |-> TextContent,
                      error |-> [isError |-> JsTrue]]),
    RawResponse("t", [content |-> TextContent,
                      error |-> [isError |-> JsStringTrue]]),
    RawResponse("t", [content |-> TextContent,
                      error |-> [isError |-> JsFalse]]),
    RawResponse("t", [status |-> "ok"]),
    RawResponse("t", [content |-> LostImageContent]) }

NoInv == [kind |-> "none"]
NotCalled == [kind |-> "uncalled"]
NoConfirmationNeeded == [kind |-> "false"]
Pending == [state |-> "pending"]
Unstarted == [state |-> "unstarted"]
\* an AbortSignal without listeners; execute has none before it is called
Signal(aborted) == [aborted |-> aborted, listeners |-> 0]
NoSignal == Signal(FALSE)
NoCall == [promise |-> [state |-> "none"], reacted |-> FALSE, args |-> <<>>]
\* the files that exist when the session starts
ExistingFiles == ("/tmp/x.png" :> <<137, 80, 78, 71>>)
\* no response is being normalized, count were so far
NoRequest(count) == [given |-> FALSE, count |-> count]
NoDisplay == [type |-> "undefined"]
NoName == [given |-> FALSE]
Unrendered == [rendered |-> FALSE]
\* a Settings object without a value
EmptySettings == [key \in {} |-> TRUE]
NoSettings == [scope \in {"User", "Workspace", "System"} |-> EmptySettings]
NoToggle == [count |-> 0]

(***************************************************************************)
(* State.                                                                  *)
(***************************************************************************)
VARIABLES
  folderTrusted,  \* what Config.isTrustedFolder() answers now
  allowlist,      \* DiscoveredMCPToolInvocation.allowlist (static Set)
  inv,            \* slot -> the DiscoveredMCPToolInvocation in it, or NoInv
  pc,             \* slot -> where the invocation is in its life
  confirmation,   \* slot -> what getConfirmationDetails returned
  resolution,     \* slot -> outcome onConfirm was called with, or "none"
  signal,         \* slot -> the AbortSignal given to execute:
                  \*         [aborted, listeners]
  callState,      \* slot -> the promise callTool returned, and whether
                  \*         its then/catch reaction has run
  callCount,      \* slot -> number of callTool calls execute made
  race,           \* slot -> the promise execute awaits (lines 269-297)
  result,         \* slot -> the promise execute returned
  events,         \* slot -> history: call and abort events in order
  alwaysServer,   \* history: servers proceed-always-server was chosen for
  alwaysTool,     \* history: <<server, tool>> pairs proceed-always-tool
                  \*          was chosen for
  files,          \* the file system: path -> bytes of the file
  clock,          \* what Date.now() returns
  request,        \* the raw response the normalizer was given last, the
                  \* file system and the time it was given it at, and
                  \* the number of responses given so far
  parts,          \* what transformMcpContentToParts returned for it
  display,        \* what getStringifiedResultForDisplay returned for it
  nameInput,      \* the name generateValidName is given: its characters
  sanitized,      \* what generateValidName returned for it, once called
  definitions,    \* the tool definition created for the name, followed
                  \* by the ones derived from it, each from the one before
  toolMessage,    \* the ToolMessage on screen: the resultDisplay it was
                  \* rendered with and its isImage, once rendered
  imageDisplay,   \* the StandaloneImageDisplay on screen: its props, the
                  \* terminal dimensions and its imageDimensions
  settings,       \* LoadedSettings: scope -> the settings saved for it
  dialog,         \* the state of the SettingsDialog on screen
  lastToggle,     \* history: the setting the last key presses toggled,
                  \* its pending value before the first of them, and
                  \* their number
  userMessage     \* the UserMessage on screen: its props, its imageResult
                  \* and the reads of images that have not settled

vars ==
  <<folderTrusted, allowlist, inv, pc, confirmation,
    resolution, signal, callState, callCount, race, result, events,
    alwaysServer, alwaysTool, files, clock, request, parts, display,
    nameInput, sanitized, definitions, toolMessage, imageDisplay,
    settings, dialog, lastToggle, userMessage>>

gateVars == <<confirmation, resolution>>
execVars == <<signal, callState, callCount, race, result, events>>
histVars == <<alwaysServer, alwaysTool>>
fsVars == <<files, clock>>
normVars == <<request, parts, display>>
nameVars == <<nameInput, sanitized, definitions>>
dialogVars == <<settings, dialog, lastToggle>>
uiVars == <<toolMessage, imageDisplay, dialogVars, userMessage>>
\* the components other than one
notToolMessage == <<imageDisplay, dialogVars, userMessage>>
notImageDisplay == <<toolMessage, dialogVars, userMessage>>
notDialog == <<toolMessage, imageDisplay, userMessage>>
notUserMessage == <<toolMessage, imageDisplay, dialogVars>>

(***************************************************************************)
(* Tool name sanitizer and tool definitions.                               *)
(***************************************************************************)
Letters ==
  {"a", "b", "c", "d", "e", "f", "g", "h", "i", "j", "k", "l", "m", "n", "o",
   "p", "q", "r", "s", "t", "u", "v", "w", "x", "y", "z",
   "A", "B", "C", "D", "E", "F", "G", "H", "I", "J", "K", "L", "M", "N", "O",
   "P", "Q", "R", "S", "T", "U", "V", "W", "X", "Y", "Z"}
Digits == {"0", "1", "2", "3", "4", "5", "6", "7", "8", "9"}
\* the characters /[^a-zA-Z0-9_.-]/ does not match
ValidChars == Letters \cup Digits \cup {"_", ".", "-"}

MaxNameLength == 63
KeptHead == 28
KeptTail == 32

\* a name of exactly 63 characters is shortened too
generateValidName_ShortensAtLimit(name) ==
  LET validToolname ==
        [k \in 1 .. Len(name) |->
           IF name[k] \in ValidChars THEN name[k] ELSE "_"]
      n == Len(validToolname)
  IN  IF n >= MaxNameLength
        THEN SubSeq(validToolname, 1, KeptHead) \o <<"_", "_", "_">>
             \o SubSeq(validToolname, n - KeptTail + 1, n)
        ELSE validToolname

generateValidName(name) ==
  LET validToolname ==
        [k \in 1 .. Len(name) |->
           IF name[k] \in ValidChars THEN name[k] ELSE "_"]
      n == Len(validToolname)
  IN  IF n > MaxNameLength
        THEN SubSeq(validToolname, 1, KeptHead) \o <<"_", "_", "_">>
             \o SubSeq(validToolname, n - KeptTail + 1, n)
        ELSE validToolname

getFullyQualifiedPrefix(tool) == tool.serverName \o <<"_", "_">>

\* the override is sanitized as well
DiscoveredMCPTool_SanitizesOverride(mcpTool, serverName, serverToolName, description, parameterSchema, trust, nameOverride, hasConfig) ==
  [ mcpTool         |-> mcpTool,
    serverName      |-> serverName,
    serverToolName  |-> serverToolName,
    name            |-> IF nameOverride.given
                          THEN generateValidName(nameOverride.value)
                          ELSE generateValidName(serverToolName),
    displayName     |-> serverToolName \o <<" ", "(">> \o serverName
                        \o <<" ", "M", "C", "P", " ", "S", "e", "r", "v", "e", "r", ")">>,
    description     |-> description,
    parameterSchema |-> parameterSchema,
    trust           |-> trust,
    hasConfig       |-> hasConfig ]

\* new DiscoveredMCPTool(...): name is the override or the sanitized name
DiscoveredMCPTool(mcpTool, serverName, serverToolName, description, parameterSchema, trust, nameOverride, hasConfig) ==
  [ mcpTool         |-> mcpTool,
    serverName      |-> serverName,
    serverToolName  |-> serverToolName,
    name            |-> IF nameOverride.given
                          THEN nameOverride.value
                          ELSE generateValidName(serverToolName),
    displayName     |-> serverToolName \o <<" ", "(">> \o serverName
                        \o <<" ", "M", "C", "P", " ", "S", "e", "r", "v", "e", "r", ")">>,
    description     |-> description,
    parameterSchema |-> parameterSchema,
    trust           |-> trust,
    hasConfig       |-> hasConfig ]

\* the prefix is put before the name of the tool definition
asFullyQualifiedTool_PrefixesName(tool) ==
  DiscoveredMCPTool(tool.mcpTool, tool.serverName, tool.serverToolName,
                    tool.description, tool.parameterSchema, tool.trust,
                    Override(getFullyQualifiedPrefix(tool) \o tool.name),
                    tool.hasConfig)

asFullyQualifiedTool(tool) ==
  DiscoveredMCPTool(tool.mcpTool, tool.serverName, tool.serverToolName,
                    tool.description, tool.parameterSchema, tool.trust,
                    Override(getFullyQualifiedPrefix(tool)
                             \o tool.serverToolName),
                    tool.hasConfig)

\* the tools discovered at start-up: a trusted tool and one with no trust
\* flag on server "s", and a trusted tool that was given no Config on
\* server "s.t", whose name is what server "s" and tool "t" join to
DiscoveredTools ==
  { DiscoveredMCPTool("client of s", <<"s">>, <<"t">>, "does t", "{}",
                      "true", NoOverride, TRUE),
    DiscoveredMCPTool("client of s", <<"s">>, <<"u">>, "does u", "{}",
                      "undefined", NoOverride, TRUE),
    DiscoveredMCPTool("client of s.t", <<"s", ".", "t">>, <<"t">>, "does t",
                      "{}", "true", NoOverride, FALSE) }

\* the tool definitions of a session: the discovered ones and the fully
\* qualified ones derived from them
Tools == DiscoveredTools \cup {asFullyQualifiedTool(tool) : tool \in DiscoveredTools}

\* new DiscoveredMCPToolInvocation(...) as createInvocation builds it
DiscoveredMCPToolInvocation(tool, params) ==
  [ kind           |-> "invocation",
    serverName     |-> tool.serverName,
    serverToolName |-> tool.serverToolName,
    displayName    |-> tool.displayName,
    trust          |-> tool.trust,
    params         |-> params,
    hasConfig      |-> tool.hasConfig ]

(***************************************************************************)
(* Trust / confirmation gate.                                              *)
(***************************************************************************)
serverAllowListKey(i) == i.serverName
toolAllowListKey(i) == i.serverName \o <<".">> \o i.serverToolName

\* the trust flag alone decides
IsTrusted_IgnoresFolder(i, trustedFolder) == i.trust = "true"

\* the test of line 210 never succeeds
IsTrusted_Never(i, trustedFolder) == FALSE

\* this.cliConfig?.isTrustedFolder() && this.trust
IsTrusted(i, trustedFolder) ==
  i.hasConfig /\ trustedFolder /\ i.trust = "true"

\* the tool key is not looked up
IsAllowlisted_ServerOnly(i, list) == serverAllowListKey(i) \in list

\* allowlist.has(serverAllowListKey) || allowlist.has(toolAllowListKey)
IsAllowlisted(i, list) ==
  serverAllowListKey(i) \in list \/ toolAllowListKey(i) \in list

\* the value getConfirmationDetails returns
getConfirmationDetails(i, trustedFolder, list) ==
  IF IsTrusted(i, trustedFolder) THEN NoConfirmationNeeded
  ELSE IF IsAllowlisted(i, list) THEN NoConfirmationNeeded
  ELSE [ kind            |-> "mcp",
         title           |-> "Confirm MCP Tool Execution",
         serverName      |-> i.serverName,
         toolName        |-> i.serverToolName,
         toolDisplayName |-> i.displayName,
         \* the keys the onConfirm closure holds
         serverKey       |-> serverAllowListKey(i),
         toolKey         |-> toolAllowListKey(i) ]

\* proceed-always-server records the tool key
onConfirm_ServerAddsToolKey(d, outcome, list) ==
  IF outcome = "ProceedAlwaysServer" THEN list \cup {d.toolKey}
  ELSE IF outcome = "ProceedAlwaysTool" THEN list \cup {d.toolKey}
  ELSE list

\* proceed-always-tool records the server key as well
onConfirm_ToolAddsServerKey(d, outcome, list) ==
  IF outcome = "ProceedAlwaysServer" THEN list \cup {d.serverKey}
  ELSE IF outcome = "ProceedAlwaysTool" THEN list \cup {d.serverKey, d.toolKey}
  ELSE list

\* the allowlist is assigned the key instead of being added to
onConfirm_Replaces(d, outcome, list) ==
  IF outcome = "ProceedAlwaysServer" THEN {d.serverKey}
  ELSE IF outcome = "ProceedAlwaysTool" THEN {d.toolKey}
  ELSE list

\* the allowlist after onConfirm(outcome) of the confirmation details d
onConfirm(d, outcome, list) ==
  IF outcome = "ProceedAlwaysServer" THEN list \cup {d.serverKey}
  ELSE IF outcome = "ProceedAlwaysTool" THEN list \cup {d.toolKey}
  ELSE list

(***************************************************************************)
(* The caller of the gate and the executor (invoke of the specification,   *)
(* section 4.5): the gate first, execute once it grants or the user        *)
(* approves.                                                               *)
(***************************************************************************)
Approves(outcome) == outcome # "Cancel"

AfterGate(details) ==
  IF details = NoConfirmationNeeded THEN "approved" ELSE "awaiting"

AfterConfirm(outcome) ==
  IF Approves(outcome) THEN "approved" ELSE "declined"

\* execute is also called while the confirmation is pending
MayExecute_WhilePending(i) == pc[i] \in {"approved", "awaiting"}

MayExecute(i) == pc[i] = "approved"

\* the invocations execute was called for and that were not dropped yet
Executing == {j \in Slots : pc[j] \in {"executing", "settled"}}

(***************************************************************************)
(* Initial state: tools discovered, no invocation, empty allowlist.        *)
(***************************************************************************)
\* no component of the user interface is on screen
UiIdle ==
  /\ toolMessage = Unrendered
  /\ imageDisplay = Unrendered
  /\ settings = NoSettings
  /\ dialog = Unrendered
  /\ lastToggle = NoToggle
  /\ userMessage = Unrendered

Init ==
  /\ folderTrusted \in BOOLEAN
  /\ allowlist = {}
  /\ inv = [i \in Slots |-> NoInv]
  /\ pc = [i \in Slots |-> "free"]
  /\ confirmation = [i \in Slots |-> NotCalled]
  /\ resolution = [i \in Slots |-> "none"]
  /\ signal = [i \in Slots |-> NoSignal]
  /\ callState = [i \in Slots |-> NoCall]
  /\ callCount = [i \in Slots |-> 0]
  /\ race = [i \in Slots |-> Unstarted]
  /\ result = [i \in Slots |-> Unstarted]
  /\ events = [i \in Slots |-> <<>>]
  /\ alwaysServer = {}
  /\ alwaysTool = {}
  /\ files = ExistingFiles
  /\ clock = 0
  /\ request = NoRequest(0)
  /\ parts = <<>>
  /\ display = NoDisplay
  /\ nameInput = <<>>
  /\ sanitized = NoName
  /\ definitions = <<>>
  /\ UiIdle

(***************************************************************************)
(* Factory and gate actions.                                               *)
(***************************************************************************)
\* the host's folder-trust predicate changes its answer
SetFolderTrust ==
  /\ folderTrusted' = ~folderTrusted
  /\ UNCHANGED <<allowlist, inv, pc, gateVars, execVars,
                 histVars, fsVars, normVars, nameVars, uiVars>>

\* tool.createInvocation(params), with a fresh AbortSignal for the call
CreateInvocation(i, tool, params) ==
  /\ pc[i] = "free"
  /\ inv' = [inv EXCEPT ![i] = DiscoveredMCPToolInvocation(tool, params)]
  /\ pc' = [pc EXCEPT ![i] = "created"]
  /\ UNCHANGED <<folderTrusted, allowlist, gateVars,
                 execVars, histVars, fsVars, normVars, nameVars, uiVars>>

\* invocation.getConfirmationDetails(signal)
GetConfirmationDetails(i) ==
  /\ pc[i] = "created"
  /\ LET details == getConfirmationDetails(inv[i], folderTrusted, allowlist)
     IN  /\ confirmation' = [confirmation EXCEPT ![i] = details]
         /\ pc' = [pc EXCEPT ![i] = AfterGate(details)]
  /\ UNCHANGED <<folderTrusted, allowlist, inv, resolution,
                 execVars, histVars, fsVars, normVars, nameVars, uiVars>>

\* details.onConfirm(outcome)
OnConfirm(i, outcome) ==
  /\ pc[i] = "awaiting"
  /\ allowlist' = onConfirm(confirmation[i], outcome, allowlist)
  /\ resolution' = [resolution EXCEPT ![i] = outcome]
  /\ pc' = [pc EXCEPT ![i] = AfterConfirm(outcome)]
  /\ alwaysServer' = IF outcome = "ProceedAlwaysServer"
                       THEN alwaysServer \cup {inv[i].serverName}
                       ELSE alwaysServer
  /\ alwaysTool' = IF outcome = "ProceedAlwaysTool"
                     THEN alwaysTool \cup
                          {<<inv[i].serverName, inv[i].serverToolName>>}
                     ELSE alwaysTool
  /\ UNCHANGED <<folderTrusted, inv, confirmation, execVars,
                 fsVars, normVars, nameVars, uiVars>>

(***************************************************************************)
(* Content block normalizer, lines 399-630.  Texts, paths, URIs and mime   *)
(* types are strings; a block is a record that has exactly the fields the  *)
(* server sent.                                                            *)
(***************************************************************************)
\* 'f' in b
Has(b, f) == f \in DOMAIN b
\* b.f is a non-empty string (what && , || and ?: test of a string field)
Truthy(b, f) == Has(b, f) /\ b[f] # ""
\* b.f is a string: the fields of the blocks hold strings only
IsString(b, f) == Has(b, f)
\* ${b.f} in a template
Interpolate(b, f) == IF Has(b, f) THEN b[f] ELSE "undefined"

\* a null element of a content list, and the test for it
JsNull == [null |-> TRUE]
IsNull(block) == Has(block, "null")

\* a content that is not an array: a field holds values of one shape, so
\* the value the server sent instead of a list is written as the list of
\* its marker
NotAnArray(value) == <<[notArray |-> value]>>

\* Array.isArray(v) for the content of a response
isArray(v) == ~(Len(v) = 1 /\ Has(v[1], "notArray"))

\* s.startsWith(prefix)
startsWith(s, prefix) ==
  Len(s) >= Len(prefix) /\ SubSeq(s, 1, Len(prefix)) = prefix

\* the part of s before the first separator, and the rest after it
RECURSIVE Before(_, _)
Before(s, sep) ==
  IF s = "" \/ Head(s) = sep THEN "" ELSE Head(s) \o Before(Tail(s), sep)

RECURSIVE After(_, _)
After(s, sep) ==
  IF s = "" THEN "" ELSE IF Head(s) = sep THEN Tail(s) ELSE After(Tail(s), sep)

\* s.split('/')[1] || fallback: the piece between the first and the second
\* separator, the fallback when there is none or it is empty
SecondPiece(s, sep, fallback) ==
  LET piece == Before(After(s, sep), sep)
  IN  IF piece = "" THEN fallback ELSE piece

\* strings.join('\n')
RECURSIVE join(_, _)
join(strings, sep) ==
  IF Len(strings) = 0 THEN ""
  ELSE IF Len(strings) = 1 THEN strings[1]
  ELSE strings[1] \o sep \o join(Tail(strings), sep)

\* array.flat(): the concatenation of a sequence of sequences
RECURSIVE flat(_)
flat(arrays) ==
  IF Len(arrays) = 0 THEN <<>> ELSE Head(arrays) \o flat(Tail(arrays))

FileScheme == "file://"
DefaultResourceMimeType == "application/octet-stream"
UnknownTool == "unknown tool"

\* the functionResponse of the first part, or none
funcResponseOf(sdkResponse) ==
  IF Len(sdkResponse) = 0 THEN [found |-> FALSE]
  ELSE IF ~Has(sdkResponse[1], "functionResponse") THEN [found |-> FALSE]
  ELSE [found |-> TRUE, value |-> sdkResponse[1].functionResponse]

\* sdkResponse?.[0]?.functionResponse?.response?.['content'], when it is
\* an array
mcpContentOf(sdkResponse) ==
  LET funcResponse == funcResponseOf(sdkResponse)
  IN  IF ~funcResponse.found THEN [isArray |-> FALSE]
      ELSE IF ~Has(funcResponse.value, "response") THEN [isArray |-> FALSE]
      ELSE IF ~Has(funcResponse.value.response, "content")
        THEN [isArray |-> FALSE]
      ELSE IF ~isArray(funcResponse.value.response.content)
        THEN [isArray |-> FALSE]
      ELSE [isArray |-> TRUE, blocks |-> funcResponse.value.response.content]

\* funcResponse?.name || 'unknown tool'
toolNameOf(sdkResponse) ==
  LET funcResponse == funcResponseOf(sdkResponse)
  IN  IF funcResponse.found /\ Truthy(funcResponse.value, "name")
        THEN funcResponse.value.name
        ELSE UnknownTool

transformTextBlock(block) == <<[text |-> block.text]>>

\* the URI of the block's file is the file path whenever it is given
fileUriOf_UriFirst(block) ==
  IF Truthy(block, "uri") THEN [given |-> TRUE, value |-> block.uri]
  ELSE IF Truthy(block, "filePath") /\ startsWith(block.filePath, FileScheme)
    THEN [given |-> TRUE, value |-> block.filePath]
  ELSE IF Truthy(block, "filePath")
    THEN [given |-> TRUE, value |-> FileScheme \o block.filePath]
  ELSE [given |-> FALSE]

\* const fileUri of lines 407-412
fileUriOf(block) ==
  IF Truthy(block, "filePath") /\ startsWith(block.filePath, FileScheme)
    THEN [given |-> TRUE, value |-> block.filePath]
  ELSE IF Truthy(block, "filePath")
    THEN [given |-> TRUE, value |-> FileScheme \o block.filePath]
  ELSE IF Truthy(block, "uri") THEN [given |-> TRUE, value |-> block.uri]
  ELSE [given |-> FALSE]

MediaDescription(block, toolName) ==
  "[Tool '" \o toolName \o "' provided the following " \o block.type
  \o " data with mime-type: " \o Interpolate(block, "mimeType") \o "]"

NoPayloadText == "[No image payload provided]"

transformImageAudioBlock(block, toolName) ==
  LET fileUri == fileUriOf(block)
      hasInlineData == Truthy(block, "data")
  IN  << [text |-> MediaDescription(block, toolName)],
         IF fileUri.given
           THEN [fileData |-> [fileUri  |-> fileUri.value,
                               mimeType |-> Interpolate(block, "mimeType")]]
         ELSE IF hasInlineData
           THEN [inlineData |-> [mimeType |-> Interpolate(block, "mimeType"),
                                 data     |-> block.data]]
         ELSE [text |-> NoPayloadText] >>

ResourceDescription(mimeType, toolName) ==
  "[Tool '" \o toolName
  \o "' provided the following embedded resource with mime-type: "
  \o mimeType \o "]"

\* the blob wins over the text
transformResourceBlock_BlobFirst(block, toolName) ==
  IF ~Has(block, "resource") THEN <<>>
  ELSE LET resource == block.resource IN
    IF Truthy(resource, "blob")
      THEN LET mimeType == IF Truthy(resource, "mimeType")
                             THEN resource.mimeType
                             ELSE DefaultResourceMimeType
           IN  << [text |-> ResourceDescription(mimeType, toolName)],
                  [inlineData |-> [mimeType |-> mimeType,
                                   data     |-> resource.blob]] >>
    ELSE IF Truthy(resource, "text") THEN <<[text |-> resource.text]>>
    ELSE <<>>

\* the parts of a resource block; null is no part
transformResourceBlock(block, toolName) ==
  IF ~Has(block, "resource") THEN <<>>
  ELSE LET resource == block.resource IN
    IF Truthy(resource, "text") THEN <<[text |-> resource.text]>>
    ELSE IF Truthy(resource, "blob")
      THEN LET mimeType == IF Truthy(resource, "mimeType")
                             THEN resource.mimeType
                             ELSE DefaultResourceMimeType
           IN  << [text |-> ResourceDescription(mimeType, toolName)],
                  [inlineData |-> [mimeType |-> mimeType,
                                   data     |-> resource.blob]] >>
    ELSE <<>>

\* block.title || block.name
titleOrName(block) ==
  IF Truthy(block, "title") THEN block.title ELSE Interpolate(block, "name")

transformResourceLinkBlock(block) ==
  <<[text |-> "Resource Link: " \o titleOrName(block) \o " at "
              \o Interpolate(block, "uri")]>>

\* a block of an unknown type is passed on as a text part
transformBlock_KeepsUnknown(block, toolName) ==
  IF block.type = "text" THEN transformTextBlock(block)
  ELSE IF block.type \in {"image", "audio"}
    THEN transformImageAudioBlock(block, toolName)
  ELSE IF block.type = "resource" THEN transformResourceBlock(block, toolName)
  ELSE IF block.type = "resource_link" THEN transformResourceLinkBlock(block)
  ELSE <<[text |-> block.type]>>

\* the switch of lines 487-499: the parts one block expands to
transformBlock(block, toolName) ==
  IF block.type = "text" THEN transformTextBlock(block)
  ELSE IF block.type \in {"image", "audio"}
    THEN transformImageAudioBlock(block, toolName)
  ELSE IF block.type = "resource" THEN transformResourceBlock(block, toolName)
  ELSE IF block.type = "resource_link" THEN transformResourceLinkBlock(block)
  ELSE <<>>

ParseErrorText == "[Error: Could not parse tool response]"

TypeError == "TypeError"

\* block.type of lines 487 and 526 is read of every element of the content
\* list; reading a property of null throws a TypeError, before any part is
\* built and before any file is looked up or written
readsTypeOfNull(sdkResponse) ==
  LET mcpContent == mcpContentOf(sdkResponse)
  IN  /\ mcpContent.isArray
      /\ \E k \in 1 .. Len(mcpContent.blocks) : IsNull(mcpContent.blocks[k])

\* a response without a content list gives no part
transformMcpContentToParts_NoDiagnostic(sdkResponse) ==
  LET mcpContent == mcpContentOf(sdkResponse)
      toolName == toolNameOf(sdkResponse)
  IN  IF ~mcpContent.isArray THEN <<>>
      ELSE flat([k \in 1 .. Len(mcpContent.blocks) |->
                   transformBlock(mcpContent.blocks[k], toolName)])

transformMcpContentToParts(sdkResponse) ==
  LET mcpContent == mcpContentOf(sdkResponse)
      toolName == toolNameOf(sdkResponse)
  IN  IF ~mcpContent.isArray THEN <<[text |-> ParseErrorText]>>
      ELSE flat([k \in 1 .. Len(mcpContent.blocks) |->
                   transformBlock(mcpContent.blocks[k], toolName)])

(***************************************************************************)
(* Display payload, lines 513-630.  The file system is a function from the *)
(* paths of the files that exist to their bytes.                           *)
(***************************************************************************)
\* a value of type string where the code allows a string or an object
JsString(s) == [type |-> "string", value |-> s]

Base64Alphabet ==
  "ABCDEFGHIJKLMNOPQRSTUVWXYZabcdefghijklmnopqrstuvwxyz0123456789+/"

\* the six bits a base64 character stands for
Base64Index(c) ==
  (CHOOSE k \in 1 .. Len(Base64Alphabet) : SubSeq(Base64Alphabet, k, k) = c) - 1

\* the bytes of a run of base64 characters without padding
RECURSIVE Base64Bytes(_)
Base64Bytes(chars) ==
  IF Len(chars) < 2 THEN <<>>
  ELSE LET v(k) == IF k <= Len(chars)
                     THEN Base64Index(SubSeq(chars, k, k)) ELSE 0
           n == v(1) * 262144 + v(2) * 4096 + v(3) * 64 + v(4)
           bytes == <<n \div 65536, (n \div 256) % 256, n % 256>>
       IN  IF Len(chars) >= 4
             THEN bytes \o Base64Bytes(SubSeq(chars, 5, Len(chars)))
             ELSE SubSeq(bytes, 1, Len(chars) - 1)

\* Buffer.from(data, 'base64')
Base64Decode(data) == Base64Bytes(Before(data, "="))

\* os.tmpdir()
TmpDir == "/tmp"

\* path.join(os.tmpdir(), filename) of lines 576-577
TempFilePath(now, index, extension) ==
  TmpDir \o "/" \o "gemini-cli-image-mcp-" \o ToString(now) \o "-"
  \o ToString(index) \o "." \o extension

\* fs.existsSync(filePath)
existsSync(fs, filePath) == filePath \in DOMAIN fs

\* the file system after fs.writeFileSync(filePath, bytes)
writeFileSync(fs, filePath, bytes) ==
  [p \in DOMAIN fs \cup {filePath} |-> IF p = filePath THEN bytes ELSE fs[p]]

\* the filter of lines 524-531
isImageBlock(block) ==
  /\ block.type = "image"
  /\ Has(block, "mimeType")
  /\ \/ IsString(block, "filePath")
     \/ IsString(block, "uri")
     \/ IsString(block, "data")

isTextBlock(block) == block.type = "text"

\* the texts of the text blocks, lines 534-536
textPartsOf(blocks) ==
  LET texts == SelectSeq(blocks, isTextBlock)
  IN  [k \in 1 .. Len(texts) |-> texts[k].text]

\* alt is the joined text also when there is no text part
ImageEntry_AlwaysAlt(filePath, block, textParts) ==
  [filePath |-> filePath, mimeType |-> block.mimeType,
   alt |-> join(textParts, "\n")]

\* an entry of ImageResult.images; alt is undefined without text parts
ImageEntry(filePath, block, textParts) ==
  IF Len(textParts) > 0
    THEN [filePath |-> filePath, mimeType |-> block.mimeType,
          alt |-> join(textParts, "\n")]
    ELSE [filePath |-> filePath, mimeType |-> block.mimeType]

\* the URI is tried before the file path
candidatePath_UriFirst(block) ==
  IF Truthy(block, "uri")
    THEN IF startsWith(block.uri, FileScheme)
           THEN SubSeq(block.uri, Len(FileScheme) + 1, Len(block.uri))
           ELSE block.uri
  ELSE IF Truthy(block, "filePath") THEN block.filePath
  ELSE ""

\* let filePath of lines 541-550: the file path, else the URI without its
\* file:// prefix, else nothing
candidatePath(block) ==
  IF Truthy(block, "filePath") THEN block.filePath
  ELSE IF Truthy(block, "uri")
    THEN IF startsWith(block.uri, FileScheme)
           THEN SubSeq(block.uri, Len(FileScheme) + 1, Len(block.uri))
           ELSE block.uri
  ELSE ""

\* an image without a path is kept, with an empty path
resolveImage_KeepsUnresolved(block, index, textParts, fs, now, writeFails) ==
  LET filePath == candidatePath(block)
  IN  IF filePath # "" /\ existsSync(fs, filePath)
        THEN [entry |-> <<ImageEntry(filePath, block, textParts)>>, files |-> fs,
              written |-> <<>>]
      ELSE IF Truthy(block, "data") /\ ~writeFails
        THEN LET filepath ==
                   TempFilePath(now, index,
                                SecondPiece(block.mimeType, "/", "png"))
             IN  [entry |-> <<ImageEntry(filepath, block, textParts)>>,
                  files |-> writeFileSync(fs, filepath, Base64Decode(block.data)),
                  written |-> <<filepath>>]
      ELSE [entry |-> <<ImageEntry("", block, textParts)>>, files |-> fs,
            written |-> <<>>]

\* the existence check is skipped
resolveImage_NoExistenceCheck(block, index, textParts, fs, now, writeFails) ==
  LET filePath == candidatePath(block)
  IN  IF filePath # ""
        THEN [entry |-> <<ImageEntry(filePath, block, textParts)>>, files |-> fs,
              written |-> <<>>]
      ELSE IF Truthy(block, "data") /\ ~writeFails
        THEN LET filepath ==
                   TempFilePath(now, index,
                                SecondPiece(block.mimeType, "/", "png"))
             IN  [entry |-> <<ImageEntry(filepath, block, textParts)>>,
                  files |-> writeFileSync(fs, filepath, Base64Decode(block.data)),
                  written |-> <<filepath>>]
      ELSE [entry |-> <<>>, files |-> fs, written |-> <<>>]

\* the callback of lines 539-600 for one image block: its entry, or none
\* for null, the file system it leaves and the path it wrote, if any
resolveImage(block, index, textParts, fs, now, writeFails) ==
  LET filePath == candidatePath(block)
  IN  IF filePath # "" /\ existsSync(fs, filePath)
        THEN [entry |-> <<ImageEntry(filePath, block, textParts)>>, files |-> fs,
              written |-> <<>>]
      ELSE IF Truthy(block, "data") /\ ~writeFails
        THEN LET filepath ==
                   TempFilePath(now, index,
                                SecondPiece(block.mimeType, "/", "png"))
             IN  [entry |-> <<ImageEntry(filepath, block, textParts)>>,
                  files |-> writeFileSync(fs, filepath, Base64Decode(block.data)),
                  written |-> <<filepath>>]
      ELSE [entry |-> <<>>, files |-> fs, written |-> <<>>]

\* imageBlocks.map(...).filter(entry => entry !== null) from position
\* index on, the blocks handled in order
RECURSIVE resolveImages(_, _, _, _, _, _)
resolveImages(imageBlocks, index, textParts, fs, now, writeFails) ==
  IF index >= Len(imageBlocks)
    THEN [images |-> <<>>, files |-> fs, written |-> <<>>]
  ELSE LET first == resolveImage(imageBlocks[index + 1], index, textParts,
                                 fs, now, writeFails)
           rest == resolveImages(imageBlocks, index + 1, textParts,
                                 first.files, now, writeFails)
       IN  [images |-> first.entry \o rest.images, files |-> rest.files,
            written |-> first.written \o rest.written]

\* the switch of lines 609-626: the line that stands for one block
displayPart(block) ==
  IF block.type = "text" THEN block.text
  ELSE IF block.type = "image"
    THEN "[Image: " \o Interpolate(block, "mimeType") \o "]"
  ELSE IF block.type = "audio"
    THEN "[Audio: " \o Interpolate(block, "mimeType") \o "]"
  ELSE IF block.type = "resource_link"
    THEN "[Link to " \o titleOrName(block) \o ": "
         \o Interpolate(block, "uri") \o "]"
  ELSE IF block.type = "resource"
    THEN IF Has(block, "resource") /\ Truthy(block.resource, "text")
           THEN block.resource.text
           ELSE "[Embedded Resource: "
                \o (IF Has(block, "resource") /\ Truthy(block.resource, "mimeType")
                      THEN block.resource.mimeType ELSE "unknown type")
                \o "]"
  ELSE "[Unknown content type: " \o block.type \o "]"

\* the string of line 521: JSON.stringify(rawResponse, null, 2) inside a
\* json code fence
JsonDump(rawResponse) ==
  [type |-> "string", fence |-> "json",
   json |-> [value |-> rawResponse, space |-> 2]]

\* the lines are joined by spaces
textSummary_SpaceJoined(blocks) ==
  JsString(join([k \in 1 .. Len(blocks) |-> displayPart(blocks[k])], " "))

\* the text summary of lines 608-629
textSummary(blocks) ==
  JsString(join([k \in 1 .. Len(blocks) |-> displayPart(blocks[k])], "\n"))

\* an image result is returned although no image was resolved
displayOf_EmptyImageResult(blocks, resolved) ==
  IF Len(SelectSeq(blocks, isImageBlock)) > 0
    THEN [images |-> resolved.images]
    ELSE textSummary(blocks)

\* if (images.length > 0) return {images}, else the text summary
displayOf(blocks, resolved) ==
  IF Len(resolved.images) > 0
    THEN [images |-> resolved.images]
    ELSE textSummary(blocks)

\* getStringifiedResultForDisplay(rawResponse) run at time now on the file
\* system fs, a write of a temp file failing or not: the value it returns,
\* the file system it leaves and the paths it wrote, in the order of the
\* writes
getStringifiedResultForDisplay(rawResponse, fs, now, writeFails) ==
  LET mcpContent == mcpContentOf(rawResponse)
  IN  IF ~mcpContent.isArray
        THEN [returnDisplay |-> JsonDump(rawResponse), files |-> fs,
              written |-> <<>>]
      ELSE LET imageBlocks == SelectSeq(mcpContent.blocks, isImageBlock)
               textParts == textPartsOf(mcpContent.blocks)
               resolved == resolveImages(imageBlocks, 0, textParts,
                                         fs, now, writeFails)
           IN  [returnDisplay |-> displayOf(mcpContent.blocks, resolved),
                files |-> resolved.files, written |-> resolved.written]

(***************************************************************************)
(* Invocation executor: execute(signal), lines 260-322.                    *)
(***************************************************************************)
Resolved(value) == [state |-> "resolved", value |-> value]
Rejected(error) == [state |-> "rejected", error |-> error]
\* callTool failed before it returned a promise
Threw(error) == [state |-> "threw", error |-> error]
IsSettled(p) == p.state \in {"resolved", "rejected"}

\* resolve(value) and reject(error) of a promise: the first one settles
\* it, every later one does nothing
Settle(p, outcome) == IF p.state = "pending" THEN outcome ELSE p

\* cleanup(): signal.removeEventListener('abort', onAbort)
cleanup(sig) == [sig EXCEPT !.listeners = 0]

\* signal.addEventListener('abort', onAbort, {once: true})
addEventListener(sig) == [sig EXCEPT !.listeners = 1]

\* the tool is called by its display name
functionCalls_DisplayName(i) == <<[name |-> i.displayName, args |-> i.params]>>

\* the function call execute hands to callTool
functionCalls(i) == <<[name |-> i.serverToolName, args |-> i.params]>>

isMCPToolError(rawResponseParts) ==
  IF Len(rawResponseParts) = 0 THEN FALSE
  ELSE LET part == rawResponseParts[1] IN
    IF "functionResponse" \notin DOMAIN part THEN FALSE
    ELSE LET functionResponse == part.functionResponse IN
      IF "response" \notin DOMAIN functionResponse THEN FALSE
      ELSE LET response == functionResponse.response IN
        IF "error" \notin DOMAIN response THEN FALSE
        ELSE LET error == response.error IN
          IF "isError" \notin DOMAIN error THEN FALSE
          ELSE error.isError = JsTrue \/ error.isError = JsStringTrue

\* a name as one string
RECURSIVE Str(_)
Str(chars) == IF Len(chars) = 0 THEN "" ELSE Head(chars) \o Str(Tail(chars))

\* a value of type array where the code allows a string or an array
JsArray(items) == [type |-> "array", items |-> items]

\* safeJsonStringify(value): the JSON text of the value
safeJsonStringify(value) == [json |-> value]

\* const errorMessage of lines 301-305
errorMessage(i, rawResponseParts) ==
  [ type         |-> "string",
    head         |-> "MCP tool '" \o Str(i.serverToolName)
                     \o "' reported tool error for function call: ",
    functionCall |-> safeJsonStringify(functionCalls(i)[1]),
    middle       |-> " with response: ",
    response     |-> safeJsonStringify(rawResponseParts) ]

\* the result object of lines 306-313
toolErrorResult(i, rawResponseParts) ==
  [ llmContent    |-> errorMessage(i, rawResponseParts),
    returnDisplay |-> JsString("Error: MCP tool '" \o Str(i.serverToolName)
                               \o "' reported an error."),
    error         |-> [ message |-> errorMessage(i, rawResponseParts),
                        type    |-> "MCP_TOOL_ERROR" ],
    raw           |-> rawResponseParts ]

\* a tool error is thrown instead of returned
executeResult_ThrowsToolError(i, r, fs, now, writeFails) ==
  IF r.state = "rejected"
    THEN [result |-> Rejected(r.error), files |-> fs]
  ELSE IF isMCPToolError(r.value)
    THEN [result |-> Rejected("MCP_TOOL_ERROR"), files |-> fs]
  ELSE LET shown == getStringifiedResultForDisplay(r.value, fs, now, writeFails)
       IN  [ result |->
               Resolved([ llmContent    |-> JsArray(transformMcpContentToParts(r.value)),
                          returnDisplay |-> shown.returnDisplay,
                          raw           |-> r.value ]),
             files |-> shown.files ]

\* a response counts as a tool error as soon as it has an error object
executeResult_AnyErrorObject(i, r, fs, now, writeFails) ==
  IF r.state = "rejected"
    THEN [result |-> Rejected(r.error), files |-> fs]
  ELSE IF Has(r.value[1].functionResponse.response, "error")
    THEN [result |-> Resolved(toolErrorResult(i, r.value)), files |-> fs]
  ELSE LET shown == getStringifiedResultForDisplay(r.value, fs, now, writeFails)
       IN  [ result |->
               Resolved([ llmContent    |-> JsArray(transformMcpContentToParts(r.value)),
                          returnDisplay |-> shown.returnDisplay,
                          raw           |-> r.value ]),
             files |-> shown.files ]

\* the error of the call is wrapped into a new error
executeResult_WrapsError(i, r, fs, now, writeFails) ==
  IF r.state = "rejected"
    THEN [result |-> Rejected("Error"), files |-> fs]
  ELSE IF isMCPToolError(r.value)
    THEN [result |-> Resolved(toolErrorResult(i, r.value)), files |-> fs]
  ELSE LET shown == getStringifiedResultForDisplay(r.value, fs, now, writeFails)
       IN  [ result |->
               Resolved([ llmContent    |-> JsArray(transformMcpContentToParts(r.value)),
                          returnDisplay |-> shown.returnDisplay,
                          raw           |-> r.value ]),
             files |-> shown.files ]

\* the display text is returned as the model content as well
executeResult_DisplayAsContent(i, r, fs, now, writeFails) ==
  IF r.state = "rejected"
    THEN [result |-> Rejected(r.error), files |-> fs]
  ELSE IF isMCPToolError(r.value)
    THEN [result |-> Resolved(toolErrorResult(i, r.value)), files |-> fs]
  ELSE LET shown == getStringifiedResultForDisplay(r.value, fs, now, writeFails)
       IN  [ result |->
               Resolved([ llmContent    |-> shown.returnDisplay,
                          returnDisplay |-> shown.returnDisplay,
                          raw           |-> r.value ]),
             files |-> shown.files ]

\* what execute does once the race of lines 269-297 has settled with
\* outcome r, on the file system fs at time now: it throws the rejection,
\* returns the tool error result of lines 301-313, or returns the result of
\* lines 316-321, which holds the two transformations of the raw response.
\* raw is history: the response the result was made from.
executeResult(i, r, fs, now, writeFails) ==
  IF r.state = "rejected"
    THEN [result |-> Rejected(r.error), files |-> fs]
  ELSE IF isMCPToolError(r.value)
    THEN [result |-> Resolved(toolErrorResult(i, r.value)), files |-> fs]
  ELSE IF readsTypeOfNull(r.value)
    THEN [result |-> Rejected(TypeError), files |-> fs]
  ELSE LET shown == getStringifiedResultForDisplay(r.value, fs, now, writeFails)
       IN  [ result |->
               Resolved([ llmContent    |-> JsArray(transformMcpContentToParts(r.value)),
                          returnDisplay |-> shown.returnDisplay,
                          raw           |-> r.value ]),
             files |-> shown.files ]

\* history: execute is entered, after the abort of its signal or not
EntryLog(sig) == IF sig.aborted THEN <<"abort", "entered">> ELSE <<"entered">>

\* the signal is not looked at before the call
abortedAtEntry_NotChecked(sig) == FALSE

\* if (signal.aborted), line 270
abortedAtEntry(sig) == sig.aborted

\* execute(signal) up to the await: the promise executor of lines 269-297,
\* for a signal sig that is aborted already or not.  callTool either
\* returns a promise or fails before it returns one; the Promise
\* constructor turns a throw of its executor into a rejection.  The caller
\* drops the confirmation details when it starts execute.
ExecuteStart(i, sig) ==
  /\ MayExecute(i)
  /\ Cardinality(Executing) < MaxExecuting
  /\ pc' = [pc EXCEPT ![i] = "executing"]
  /\ confirmation' = [confirmation EXCEPT ![i] = NotCalled]
  /\ resolution' = [resolution EXCEPT ![i] = "none"]
  /\ result' = [result EXCEPT ![i] = Pending]
  /\ IF abortedAtEntry(sig)
       THEN /\ signal' = [signal EXCEPT ![i] = sig]
            /\ race' = [race EXCEPT ![i] = Rejected(AbortError)]
            /\ events' = [events EXCEPT ![i] = EntryLog(sig)]
            /\ UNCHANGED <<callState, callCount>>
       ELSE /\ signal' = [signal EXCEPT ![i] = addEventListener(sig)]
            /\ callCount' = [callCount EXCEPT ![i] = callCount[i] + 1]
            /\ \/ /\ callState' = [callState EXCEPT ![i] =
                                     [promise |-> Pending, reacted |-> FALSE,
                                      args |-> functionCalls(inv[i])]]
                  /\ race' = [race EXCEPT ![i] = Pending]
                  /\ events' = [events EXCEPT ![i] = EntryLog(sig)]
               \/ \E err \in TransportErrors :
                    /\ callState' = [callState EXCEPT ![i] =
                                       [promise |-> Threw(err), reacted |-> FALSE,
                                        args |-> functionCalls(inv[i])]]
                    /\ race' = [race EXCEPT ![i] = Rejected(err)]
                    /\ events' = [events EXCEPT ![i] =
                                    Append(EntryLog(sig), "threw")]
  /\ UNCHANGED <<folderTrusted, allowlist, inv, histVars, fsVars, normVars, nameVars, uiVars>>

\* the external call fulfils with a response or fails with an error
CallSettles(i, outcome) ==
  /\ callState[i].promise = Pending
  /\ callState' = [callState EXCEPT ![i].promise = outcome]
  /\ events' = [events EXCEPT ![i] = Append(events[i], "settled")]
  /\ UNCHANGED <<folderTrusted, allowlist, inv, pc, gateVars,
                 signal, callCount, race, result, histVars, fsVars, normVars, nameVars, uiVars>>

\* the reaction to the call: .then(res => {cleanup(); resolve(res)}) or
\* .catch(err => {cleanup(); reject(err)}), lines 289-296
CallReaction(i) ==
  /\ IsSettled(callState[i].promise)
  /\ ~callState[i].reacted
  /\ callState' = [callState EXCEPT ![i].reacted = TRUE]
  /\ signal' = [signal EXCEPT ![i] = cleanup(signal[i])]
  /\ race' = [race EXCEPT ![i] = Settle(race[i], callState[i].promise)]
  /\ events' = [events EXCEPT ![i] = Append(events[i], "delivered")]
  /\ UNCHANGED <<folderTrusted, allowlist, inv, pc, gateVars,
                 callCount, result, histVars, fsVars, normVars, nameVars, uiVars>>

\* onAbort removes the listener and rejects nothing
onAbort_NoReject(i) ==
  /\ signal' = [signal EXCEPT ![i] = [cleanup(signal[i]) EXCEPT !.aborted = TRUE]]
  /\ UNCHANGED race

\* onAbort of lines 276-281, run by the signal for its listener
onAbort(i) ==
  /\ signal' = [signal EXCEPT ![i] = [cleanup(signal[i]) EXCEPT !.aborted = TRUE]]
  /\ race' = [race EXCEPT ![i] = Settle(race[i], Rejected(AbortError))]

\* the AbortController of the signal given to execute aborts: the signal
\* becomes aborted and dispatches 'abort' to the listeners it has
Abort(i) ==
  /\ pc[i] \in {"executing", "settled"}
  /\ ~signal[i].aborted
  /\ IF signal[i].listeners > 0
       THEN onAbort(i)
       ELSE /\ signal' = [signal EXCEPT ![i].aborted = TRUE]
            /\ UNCHANGED race
  /\ events' = [events EXCEPT ![i] = Append(events[i], "abort")]
  /\ UNCHANGED <<folderTrusted, allowlist, inv, pc, gateVars,
                 callState, callCount, result, histVars, fsVars, normVars, nameVars, uiVars>>

\* execute after the await, lines 299-322
ExecuteResume(i, writeFails) ==
  /\ pc[i] = "executing"
  /\ IsSettled(race[i])
  /\ LET done == executeResult(inv[i], race[i], files, clock, writeFails)
     IN  /\ result' = [result EXCEPT ![i] = done.result]
         /\ files' = done.files
  /\ pc' = [pc EXCEPT ![i] = "settled"]
  /\ UNCHANGED <<folderTrusted, allowlist, inv, gateVars, signal, callState,
                 callCount, race, events, histVars, clock, normVars, nameVars, uiVars>>

\* the invocation is dropped once execute has returned or the user declined
Discard(i) ==
  /\ pc[i] \in {"settled", "declined"}
  /\ inv' = [inv EXCEPT ![i] = NoInv]
  /\ pc' = [pc EXCEPT ![i] = "free"]
  /\ confirmation' = [confirmation EXCEPT ![i] = NotCalled]
  /\ resolution' = [resolution EXCEPT ![i] = "none"]
  /\ signal' = [signal EXCEPT ![i] = NoSignal]
  /\ callState' = [callState EXCEPT ![i] = NoCall]
  /\ callCount' = [callCount EXCEPT ![i] = 0]
  /\ race' = [race EXCEPT ![i] = Unstarted]
  /\ result' = [result EXCEPT ![i] = Unstarted]
  /\ events' = [events EXCEPT ![i] = <<>>]
  /\ UNCHANGED <<folderTrusted, allowlist, histVars, fsVars, normVars, nameVars, uiVars>>

(***************************************************************************)
(* Specification.                                                          *)
(***************************************************************************)
CallOutcomes ==
  {Resolved(r) : r \in RawResponses} \cup {Rejected(e) : e \in TransportErrors}

Next ==
  \/ SetFolderTrust
  \/ \E i \in Slots, tool \in Tools, params \in ParamValues :
       CreateInvocation(i, tool, params)
  \/ \E i \in Slots : GetConfirmationDetails(i)
  \/ \E i \in Slots, outcome \in Outcomes : OnConfirm(i, outcome)
  \/ \E i \in Slots, aborted \in BOOLEAN : ExecuteStart(i, Signal(aborted))
  \/ \E i \in Slots, outcome \in CallOutcomes : CallSettles(i, outcome)
  \/ \E i \in Slots : CallReaction(i)
  \/ \E i \in Slots : Abort(i)
  \/ \E i \in Slots, writeFails \in BOOLEAN : ExecuteResume(i, writeFails)
  \/ \E i \in Slots : Discard(i)

Spec == Init /\ [][Next]_vars

(***************************************************************************)
(* The normalizer on its own: responses of every shape are normalized one  *)
(* after the other on one file system, while the clock advances.           *)
(***************************************************************************)
NoFields == [f \in {} |-> f]
\* an optional field: absent, or present with one of the values
Optional(f, values) == {NoFields} \cup {f :> v : v \in values}

TextBlocks == {[type |-> "text", text |-> t] : t \in {"done", "more"}}

ImageBlocks ==
  { [type |-> "image", mimeType |-> "image/png"] @@ filePath @@ uri @@ data :
      filePath \in Optional("filePath", {"", "/tmp/x.png", "file:///tmp/x.png"}),
      uri \in Optional("uri", {"file:///b.png", "https://h/c.png"}),
      data \in Optional("data", {"", "QUJD"}) }
  \cup { [type |-> "image"],
         [type |-> "image", filePath |-> "/tmp/x.png"],
         [type |-> "image", mimeType |-> "image", data |-> "QQ=="] }

AudioBlocks ==
  { [type |-> "audio", mimeType |-> "audio/wav"] @@ filePath @@ uri @@ data :
      filePath \in Optional("filePath", {"/tmp/a.wav"}),
      uri \in Optional("uri", {"file:///b.wav"}),
      data \in Optional("data", {"UklG"}) }

ResourceBlocks ==
  { [type |-> "resource", resource |-> text @@ blob @@ mimeType] :
      text \in Optional("text", {"", "res"}),
      blob \in Optional("blob", {"QkxPQg=="}),
      mimeType \in Optional("mimeType", {"text/plain"}) }
  \cup {[type |-> "resource"]}

ResourceLinkBlocks ==
  { [type |-> "resource_link", uri |-> "https://h/doc"] @@ title @@ name :
      title \in Optional("title", {"", "T"}),
      name \in Optional("name", {"N"}) }

UnknownBlocks == {[type |-> "video"]}

Blocks ==
  TextBlocks \cup ImageBlocks \cup AudioBlocks \cup ResourceBlocks
  \cup ResourceLinkBlocks \cup UnknownBlocks

\* the blocks that longer content lists are made of: texts, an image
\* whose file may exist, one whose file is lost and whose URI may name a
\* file, two with a payload only, an audio clip and an unknown block
CoreBlocks ==
  { [type |-> "text", text |-> "done"],
    [type |-> "text", text |-> "more"],
    [type |-> "image", mimeType |-> "image/png", filePath |-> "/tmp/x.png"],
    [type |-> "image", mimeType |-> "image/png", filePath |-> "/lost.png",
     uri |-> "file:///b.png"],
    [type |-> "image", mimeType |-> "image/png", data |-> "QUJD"],
    [type |-> "image", mimeType |-> "image/png", data |-> "eHl6"],
    [type |-> "audio", mimeType |-> "audio/wav", data |-> "UklG"],
    [type |-> "video"] }

\* the content lists: every block on its own, and the lists of at most
\* MaxBlocks of the core blocks
Contents ==
  {<<b>> : b \in Blocks}
  \cup UNION {[1 .. n -> CoreBlocks] : n \in 0 .. MaxBlocks}

\* responses without a content list
MalformedResponses ==
  { <<>>,
    <<[text |-> "oops"]>>,
    <<[functionResponse |-> [name |-> "t"]]>>,
    RawResponse("t", [status |-> "ok"]),
    RawResponse("t", [content |-> NotAnArray("oops")]) }

\* responses whose content list has a null element
NullElementResponses ==
  { RawResponse("t", [content |-> <<JsNull>>]),
    RawResponse("t", [content |-> <<[type |-> "text", text |-> "done"],
                                    JsNull>>]),
    RawResponse("t", [content |-> <<[type |-> "image",
                                     mimeType |-> "image/png",
                                     data |-> "QUJD"],
                                    JsNull>>]) }

\* a response without a tool name: a text and an image given by its path
ScenarioResponse ==
  <<[functionResponse |->
       [response |->
          [content |->
             << [type |-> "text", text |-> "done"],
                [type |-> "image", mimeType |-> "image/png",
                 filePath |-> "/tmp/x.png"] >>]]]>>

\* two images between two texts
CaptionResponse ==
  RawResponse("t",
    [content |->
       << [type |-> "text", text |-> "done"],
          [type |-> "image", mimeType |-> "image/png",
           filePath |-> "/tmp/x.png"],
          [type |-> "image", mimeType |-> "image/png", data |-> "QUJD"],
          [type |-> "text", text |-> "more"] >>])

\* the responses the normalizer is given: named and unnamed ones with a
\* content list, tool errors and malformed ones
Requests ==
  {RawResponse("t", [content |-> c]) : c \in Contents}
  \cup {<<[functionResponse |-> [response |-> [content |-> <<b>>]]]>> : b \in Blocks}
  \cup {ScenarioResponse, CaptionResponse}
  \cup RawResponses \cup MalformedResponses \cup NullElementResponses

\* the responses normalized after the first one: one core block each, or
\* a null element
LaterRequests ==
  {RawResponse("t", [content |-> <<b>>]) : b \in CoreBlocks \cup {JsNull}}

\* the file systems a session starts on
FileSystems ==
  { [p \in paths |-> <<137, 80, 78, 71>>] :
      paths \in SUBSET {"/tmp/x.png", "/b.png"} }

NormInit ==
  /\ folderTrusted = FALSE
  /\ allowlist = {}
  /\ inv = [i \in Slots |-> NoInv]
  /\ pc = [i \in Slots |-> "free"]
  /\ confirmation = [i \in Slots |-> NotCalled]
  /\ resolution = [i \in Slots |-> "none"]
  /\ signal = [i \in Slots |-> NoSignal]
  /\ callState = [i \in Slots |-> NoCall]
  /\ callCount = [i \in Slots |-> 0]
  /\ race = [i \in Slots |-> Unstarted]
  /\ result = [i \in Slots |-> Unstarted]
  /\ events = [i \in Slots |-> <<>>]
  /\ alwaysServer = {}
  /\ alwaysTool = {}
  /\ files \in FileSystems
  /\ clock = 0
  /\ request = NoRequest(0)
  /\ parts = <<>>
  /\ display = NoDisplay
  /\ nameInput = <<>>
  /\ sanitized = NoName
  /\ definitions = <<>>
  /\ UiIdle

invVars ==
  <<folderTrusted, allowlist, inv, pc, gateVars, execVars, histVars>>

\* the variables of the tools
coreVars == <<invVars, fsVars, normVars, nameVars>>

\* lines 316-320 for one response: both transformations of it.  The
\* first response is of any shape, a later one is one of LaterRequests.
\* When a transformation throws there is no result to take: the request
\* records the error and the next response can be normalized.
Normalize(rawResponse, writeFails) ==
  /\ ~request.given
  /\ request.count < MaxNormalized
  /\ request.count = 0 \/ rawResponse \in LaterRequests
  /\ IF readsTypeOfNull(rawResponse)
       THEN /\ request' = [given |-> FALSE, count |-> request.count + 1,
                           threw |-> TypeError, raw |-> rawResponse,
                           before |-> files, at |-> clock]
            /\ UNCHANGED <<parts, display, files>>
       ELSE LET shown == getStringifiedResultForDisplay(rawResponse, files,
                                                        clock, writeFails)
            IN  /\ parts' = transformMcpContentToParts(rawResponse)
                /\ display' = shown.returnDisplay
                /\ files' = shown.files
                /\ request' = [given |-> TRUE, count |-> request.count + 1,
                               raw |-> rawResponse, before |-> files,
                               at |-> clock, writeFails |-> writeFails,
                               written |-> shown.written]
  /\ UNCHANGED <<invVars, clock, nameVars, uiVars>>

\* the caller takes the result; the next response can be normalized
TakeResult ==
  /\ request.given
  /\ request' = NoRequest(request.count)
  /\ parts' = <<>>
  /\ display' = NoDisplay
  /\ UNCHANGED <<invVars, fsVars, nameVars, uiVars>>

\* time passes between two normalizations; Date.now() is read when a
\* temp file is named and nowhere else
Tick ==
  /\ ~request.given
  /\ clock < MaxClock
  /\ clock' = clock + 1
  /\ UNCHANGED <<invVars, files, normVars, nameVars, uiVars>>

NormNext ==
  \/ \E rawResponse \in Requests, writeFails \in BOOLEAN :
       Normalize(rawResponse, writeFails)
  \/ TakeResult
  \/ Tick

NormSpec == NormInit /\ [][NormNext]_vars

(***************************************************************************)
(* The sanitizer on its own: a name of any length, of valid and invalid    *)
(* characters, is made up and then sanitized.                              *)
(***************************************************************************)
\* the characters names are made of: valid ones of every kind and some
\* that are not valid
NameChars == {"a", "Z", "7", "_", ".", "-", " ", "/", "$"}

\* how many characters a name starts with
MaxFirstChars == 2

\* the run of characters a name is made longer by, and how often
Run7 == <<"b", "$", "Y", "8", " ", ".", "-">>
MaxRuns == 14

NameInit ==
  /\ folderTrusted = FALSE
  /\ allowlist = {}
  /\ inv = [i \in Slots |-> NoInv]
  /\ pc = [i \in Slots |-> "free"]
  /\ confirmation = [i \in Slots |-> NotCalled]
  /\ resolution = [i \in Slots |-> "none"]
  /\ signal = [i \in Slots |-> NoSignal]
  /\ callState = [i \in Slots |-> NoCall]
  /\ callCount = [i \in Slots |-> 0]
  /\ race = [i \in Slots |-> Unstarted]
  /\ result = [i \in Slots |-> Unstarted]
  /\ events = [i \in Slots |-> <<>>]
  /\ alwaysServer = {}
  /\ alwaysTool = {}
  /\ files = ExistingFiles
  /\ clock = 0
  /\ request = NoRequest(0)
  /\ parts = <<>>
  /\ display = NoDisplay
  /\ nameInput \in UNION {[1 .. n -> NameChars] : n \in 0 .. MaxFirstChars}
  /\ sanitized = NoName
  /\ definitions = <<>>
  /\ UiIdle

\* how many definitions are derived from the created one, each from the
\* one before
MaxDerived == 2

\* what a definition is created with beside the raw name of the tool: a
\* server, a trust flag and a config or none, and an override or none;
\* the server tells the three apart
Creations ==
  { [serverName |-> <<"s">>, trust |-> "true", hasConfig |-> TRUE,
     nameOverride |-> NoOverride],
    [serverName |-> <<"s", ".", "t">>, trust |-> "undefined",
     hasConfig |-> FALSE, nameOverride |-> NoOverride],
    [serverName |-> <<"o">>, trust |-> "true", hasConfig |-> TRUE,
     nameOverride |-> Override(<<"m", "y", " ", "t", "o", "o", "l">>)] }

\* the name gets seven characters longer
Lengthen ==
  /\ ~sanitized.given
  /\ definitions = <<>>
  /\ Len(nameInput) + Len(Run7) <= MaxFirstChars + MaxRuns * Len(Run7)
  /\ nameInput' = nameInput \o Run7
  /\ UNCHANGED <<invVars, fsVars, normVars, uiVars, sanitized, definitions>>

\* generateValidName(name), lines 633-644
Sanitize ==
  /\ ~sanitized.given
  /\ definitions = <<>>
  /\ sanitized' = [given |-> TRUE, value |-> generateValidName(nameInput)]
  /\ UNCHANGED <<invVars, fsVars, normVars, uiVars, nameInput, definitions>>

\* new DiscoveredMCPTool(...) for the tool of the name, lines 333-358
CreateDefinition(c) ==
  /\ ~sanitized.given
  /\ definitions = <<>>
  /\ definitions' =
       << DiscoveredMCPTool("client", c.serverName, nameInput, "does it",
                            "{}", c.trust, c.nameOverride, c.hasConfig) >>
  /\ UNCHANGED <<invVars, fsVars, normVars, uiVars, nameInput, sanitized>>

\* asFullyQualifiedTool() of the definition made last, lines 364-378
Qualify ==
  /\ Len(definitions) >= 1
  /\ Len(definitions) <= MaxDerived
  /\ definitions' =
       Append(definitions, asFullyQualifiedTool(definitions[Len(definitions)]))
  /\ UNCHANGED <<invVars, fsVars, normVars, uiVars, nameInput, sanitized>>

NameNext ==
  \/ Lengthen
  \/ Sanitize
  \/ \E c \in Creations : CreateDefinition(c)
  \/ Qualify

NameSpec == NameInit /\ [][NameNext]_vars

(***************************************************************************)
(* The tool message: ToolMessage renders the display payload of a tool     *)
(* call and asks isImageResult whether it is an image result.              *)
(***************************************************************************)
\* typeof value === 'object': a value that is no object is written as a
\* record of its type, the objects as records of their own fields
typeofObject(value) ==
  ~(Has(value, "type")
    /\ value.type \in {"undefined", "string", "number", "boolean"})

\* the elements are not looked at
isImageResult_AnyElements(resultDisplay) ==
  /\ typeofObject(resultDisplay)
  /\ ~IsNull(resultDisplay)
  /\ Has(resultDisplay, "images")
  /\ isArray(resultDisplay.images)
  /\ Len(resultDisplay.images) > 0

\* isImageResult as ImageDisplay.tsx had it before the images were held
\* in files: an element has data and mimeType
isImageResult_Earlier(resultDisplay) ==
  /\ typeofObject(resultDisplay)
  /\ ~IsNull(resultDisplay)
  /\ Has(resultDisplay, "images")
  /\ isArray(resultDisplay.images)
  /\ Len(resultDisplay.images) > 0
  /\ \A k \in DOMAIN resultDisplay.images :
       LET img == resultDisplay.images[k]
       IN  /\ typeofObject(img)
           /\ ~IsNull(img)
           /\ Has(img, "data")
           /\ Has(img, "mimeType")

\* isImageResult of ImageDisplay.tsx
isImageResult(resultDisplay) ==
  /\ typeofObject(resultDisplay)
  /\ ~IsNull(resultDisplay)
  /\ Has(resultDisplay, "images")
  /\ isArray(resultDisplay.images)
  /\ Len(resultDisplay.images) > 0
  /\ \A k \in DOMAIN resultDisplay.images :
       LET img == resultDisplay.images[k]
       IN  /\ typeofObject(img)
           /\ ~IsNull(img)
           /\ Has(img, "filePath")
           /\ Has(img, "mimeType")

\* what ToolMessage computes of its resultDisplay when it renders
ToolMessage(resultDisplay) ==
  [rendered |-> TRUE, resultDisplay |-> resultDisplay,
   isImage |-> isImageResult(resultDisplay)]

MaxImages == 2

\* what the images of a display payload of any tool may hold
ImageElements ==
  { JsNull,
    JsString("/tmp/img.png"),
    [alt |-> "a picture"],
    [filePath |-> "/tmp/img.png"],
    [mimeType |-> "image/png"],
    [filePath |-> "/tmp/img.png", mimeType |-> "image/png"],
    [filePath |-> "/tmp/img.png", mimeType |-> "image/png",
     alt |-> "a picture"],
    [data |-> "QUJD", mimeType |-> "image/png"] }

\* display payloads of any tool: values that are no objects, objects
\* without images, with images that are no array, and with any array of
\* elements as images
OtherDisplays ==
  { JsNull, NoDisplay, JsString("string"),
    [type |-> "number", value |-> "123"],
    [text |-> "no images"],
    [images |-> NotAnArray("/tmp/img.png")] }
  \cup { [images |-> elements] :
           elements \in UNION {[1 .. n -> ImageElements] : n \in 0 .. MaxImages} }

\* the tool call the message is of is a call of a discovered tool: its
\* response is normalized
CallDiscoveredTool(rawResponse, writeFails) ==
  /\ request.count = 0
  /\ ~toolMessage.rendered
  /\ Normalize(rawResponse, writeFails)

\* the tool message is rendered with the display payload the normalizer
\* returned
RenderResult ==
  /\ request.given
  /\ ~toolMessage.rendered
  /\ toolMessage' = ToolMessage(display)
  /\ UNCHANGED <<coreVars, notToolMessage>>

\* the tool call is a call of another tool: the message is rendered with
\* the display payload of that tool
RenderOther(resultDisplay) ==
  /\ request.count = 0
  /\ ~request.given
  /\ ~toolMessage.rendered
  /\ toolMessage' = ToolMessage(resultDisplay)
  /\ UNCHANGED <<coreVars, notToolMessage>>

ShowNext ==
  \/ \E rawResponse \in Requests, writeFails \in BOOLEAN :
       CallDiscoveredTool(rawResponse, writeFails)
  \/ Tick
  \/ RenderResult
  \/ \E resultDisplay \in OtherDisplays : RenderOther(resultDisplay)

ShowSpec == NormInit /\ [][ShowNext]_vars

(***************************************************************************)
(* The image on screen: StandaloneImageDisplay computes the width and the  *)
(* height of its images from its props and the terminal dimensions.        *)
(***************************************************************************)
\* IMAGE_LAYOUT: the ratios as the fractions they are
WidthRatioTenths == 8
TargetViewportHalves == 1
MinRows == 8
FallbackRows == 24
ReservedRowsForPrompt == 6
MinColumns == 10

Min(a, b) == IF a < b THEN a ELSE b
Max(a, b) == IF a > b THEN a ELSE b

\* an optional number: undefined, or the number
Undefined == [given |-> FALSE]
Number(n) == [given |-> TRUE, value |-> n]

\* what useTerminalDimensions answers: nothing, or the sizes in pixels of
\* the viewport and of a cell
Unmeasured == [measured |-> FALSE]
TerminalDimensions(viewportWidth, viewportHeight, cellWidth, cellHeight) ==
  [measured |-> TRUE, viewportWidth |-> viewportWidth,
   viewportHeight |-> viewportHeight, cellWidth |-> cellWidth,
   cellHeight |-> cellHeight]

\* maxHeight is not looked at
imageDimensions_NoCap(terminalDimensions, terminalWidth, maxHeight) ==
  LET availableWidth ==
        IF terminalDimensions.measured
          THEN terminalDimensions.viewportWidth \div terminalDimensions.cellWidth
          ELSE terminalWidth
      availableHeight ==
        IF terminalDimensions.measured
          THEN terminalDimensions.viewportHeight \div terminalDimensions.cellHeight
          ELSE FallbackRows
      width ==
        Max(MinColumns,
            Min((availableWidth * WidthRatioTenths) \div 10, availableWidth))
      usableHeight == Max(availableHeight - ReservedRowsForPrompt, MinRows)
      targetHeight == (availableHeight * TargetViewportHalves) \div 2
      height == Max(Min(targetHeight, usableHeight), MinRows)
  IN  [width |-> width, height |-> height]

\* the imageDimensions memo of lines 70-120
imageDimensions(terminalDimensions, terminalWidth, maxHeight) ==
  LET columns ==
        terminalDimensions.viewportWidth \div terminalDimensions.cellWidth
      rows ==
        terminalDimensions.viewportHeight \div terminalDimensions.cellHeight
      availableWidth ==
        IF terminalDimensions.measured THEN columns ELSE terminalWidth
      availableHeight ==
        IF terminalDimensions.measured
          THEN IF maxHeight.given THEN Min(maxHeight.value, rows) ELSE rows
          ELSE IF maxHeight.given
                 THEN Min(maxHeight.value, FallbackRows)
                 ELSE FallbackRows
      width ==
        Max(MinColumns,
            Min((availableWidth * WidthRatioTenths) \div 10, availableWidth))
      cappedAvailableHeight ==
        IF maxHeight.given
          THEN Min(maxHeight.value, availableHeight)
          ELSE availableHeight
      usableHeight ==
        Max(cappedAvailableHeight - ReservedRowsForPrompt, MinRows)
      targetHeight == (cappedAvailableHeight * TargetViewportHalves) \div 2
      height == Max(Min(targetHeight, usableHeight), MinRows)
  IN  [width |-> width, height |-> height]

\* the component as rendered with its props in a terminal
StandaloneImageDisplay(terminalDimensions, terminalWidth, maxHeight) ==
  [rendered |-> TRUE, terminalDimensions |-> terminalDimensions,
   terminalWidth |-> terminalWidth, maxHeight |-> maxHeight,
   imageDimensions |->
     imageDimensions(terminalDimensions, terminalWidth, maxHeight)]

MaxHeightProp == 30

\* the props a parent gives, and the terminals the component is shown in
MaxHeights == {Undefined} \cup {Number(n) : n \in 0 .. MaxHeightProp}
TerminalWidths == {0, 10, 12, 13, 80, 200}
Terminals ==
  {Unmeasured}
  \cup { TerminalDimensions(viewportWidth, viewportHeight, cellWidth, cellHeight) :
           viewportWidth \in {0, 95, 800}, viewportHeight \in {0, 100, 400, 1000},
           cellWidth \in {8, 10}, cellHeight \in {16, 20} }

\* the component is rendered for the first time
MountImage(terminalDimensions, terminalWidth, maxHeight) ==
  /\ ~imageDisplay.rendered
  /\ imageDisplay' =
       StandaloneImageDisplay(terminalDimensions, terminalWidth, maxHeight)
  /\ UNCHANGED <<coreVars, notImageDisplay>>

\* the terminal is resized, or measured: the memo is computed again
ResizeTerminal(terminalDimensions) ==
  /\ imageDisplay.rendered
  /\ imageDisplay' =
       StandaloneImageDisplay(terminalDimensions, imageDisplay.terminalWidth,
                              imageDisplay.maxHeight)
  /\ UNCHANGED <<coreVars, notImageDisplay>>

\* the parent renders the component with another maxHeight
SetMaxHeight(maxHeight) ==
  /\ imageDisplay.rendered
  /\ imageDisplay' =
       StandaloneImageDisplay(imageDisplay.terminalDimensions,
                              imageDisplay.terminalWidth, maxHeight)
  /\ UNCHANGED <<coreVars, notImageDisplay>>

ImageNext ==
  \/ \E terminalDimensions \in Terminals, terminalWidth \in TerminalWidths,
        maxHeight \in MaxHeights :
       MountImage(terminalDimensions, terminalWidth, maxHeight)
  \/ \E terminalDimensions \in Terminals : ResizeTerminal(terminalDimensions)
  \/ \E maxHeight \in MaxHeights : SetMaxHeight(maxHeight)

ImageSpec == Init /\ [][ImageNext]_vars

(***************************************************************************)
(* The settings dialog: SettingsDialog.tsx.  A key press is one action:    *)
(* the useInput handler, the render that follows it and the effects the    *)
(* render runs.                                                            *)
(***************************************************************************)
maxItemsToShow == 8

\* the settings of the dialog, in the order of getDialogSettingKeys, each
\* with what getSettingDefinition and getDefaultValue say of it
SettingDefinitions ==
  << [key |-> "vimMode", requiresRestart |-> FALSE, default |-> FALSE],
     [key |-> "showMemoryUsage", requiresRestart |-> TRUE, default |-> FALSE],
     [key |-> "hideTips", requiresRestart |-> FALSE, default |-> FALSE],
     [key |-> "hideBanner", requiresRestart |-> FALSE, default |-> FALSE],
     [key |-> "disableAutoUpdate", requiresRestart |-> FALSE, default |-> FALSE],
     [key |-> "showLineNumbers", requiresRestart |-> FALSE, default |-> FALSE],
     [key |-> "hideWindowTitle", requiresRestart |-> FALSE, default |-> FALSE],
     [key |-> "usageStatisticsEnabled", requiresRestart |-> FALSE,
      default |-> TRUE],
     [key |-> "autoConfigureMaxOldSpaceSize", requiresRestart |-> TRUE,
      default |-> FALSE] >>

getDialogSettingKeys == [k \in DOMAIN SettingDefinitions |-> SettingDefinitions[k].key]

getSettingDefinition(key) ==
  CHOOSE definition \in {SettingDefinitions[k] : k \in DOMAIN SettingDefinitions} :
    definition.key = key

requiresRestart(key) == getSettingDefinition(key).requiresRestart
getDefaultValue(key) == getSettingDefinition(key).default

\* the value of a setting in a Settings object: its own, or the default
getSettingValue(key, scopeSettings) ==
  IF key \in DOMAIN scopeSettings THEN scopeSettings[key]
  ELSE getDefaultValue(key)

\* a copy of the pending settings with the value set
setPendingSettingValue(key, value, pendingSettings) ==
  [k \in DOMAIN pendingSettings \cup {key} |->
     IF k = key THEN value ELSE pendingSettings[k]]

hasRestartRequiredSettings(modifiedSettings) ==
  \E key \in modifiedSettings : requiresRestart(key)

getRestartRequiredFromModified(modifiedSettings) ==
  {key \in modifiedSettings : requiresRestart(key)}

\* the values the pending settings hold for the keys are saved to the scope
saveModifiedSettings(keys, pendingSettings, loadedSettings, scope) ==
  LET saved == keys \cap DOMAIN pendingSettings
  IN  [loadedSettings EXCEPT
         ![scope] = [k \in DOMAIN loadedSettings[scope] \cup saved |->
                       IF k \in saved THEN pendingSettings[k]
                       ELSE loadedSettings[scope][k]]]

\* getScopeItems, in the order of the radio buttons
ScopeItems == <<"User", "Workspace", "System">>

\* the effect of lines 78-86
resetPendingSettings(d, loadedSettings) ==
  [d EXCEPT !.pendingSettings = loadedSettings[d.selectedScope],
            !.showRestartPrompt =
              IF d.restartRequiredSettings = {} THEN FALSE
              ELSE d.showRestartPrompt]

\* the effect of lines 89-115
reapplyModifiedSettings(d, loadedSettings) ==
  IF d.modifiedSettings = {} THEN d
  ELSE [d EXCEPT !.pendingSettings =
          [k \in DOMAIN d.pendingSettings \cup d.modifiedSettings |->
             IF k \in d.modifiedSettings
               THEN ~getSettingValue(k, loadedSettings[d.selectedScope])
               ELSE d.pendingSettings[k]]]

\* both effects, in the order of their declaration: the selected scope,
\* the modified settings or the restart-required settings have changed
runEffects(d, loadedSettings) ==
  reapplyModifiedSettings(resetPendingSettings(d, loadedSettings),
                          loadedSettings)

\* the dialog as it is first rendered, its effects run
SettingsDialog(loadedSettings) ==
  runEffects([rendered |-> TRUE,
              focusSection |-> "settings",
              selectedScope |-> "User",
              activeSettingIndex |-> 0,
              scrollOffset |-> 0,
              showRestartPrompt |-> FALSE,
              pendingSettings |-> loadedSettings["User"],
              modifiedSettings |-> {},
              restartRequiredSettings |-> {},
              restartRequested |-> FALSE,
              changes |-> 0],
             loadedSettings)

\* items.length and items[activeSettingIndex].value
ItemsLength == Len(getDialogSettingKeys)
ItemAt(index) == getDialogSettingKeys[index + 1]

\* the scroll offset follows the index by two
moveDown_ScrollsLate(d) ==
  IF d.activeSettingIndex < ItemsLength - 1
    THEN [d EXCEPT
            !.activeSettingIndex = d.activeSettingIndex + 1,
            !.scrollOffset =
              IF d.activeSettingIndex + 1 >= d.scrollOffset + maxItemsToShow + 1
                THEN d.scrollOffset + 1 ELSE d.scrollOffset]
    ELSE d

\* lines 253-259
moveUp(d) ==
  IF d.activeSettingIndex > 0
    THEN [d EXCEPT
            !.activeSettingIndex = d.activeSettingIndex - 1,
            !.scrollOffset =
              IF d.activeSettingIndex - 1 < d.scrollOffset
                THEN d.scrollOffset - 1 ELSE d.scrollOffset]
    ELSE d

\* lines 260-266
moveDown(d) ==
  IF d.activeSettingIndex < ItemsLength - 1
    THEN [d EXCEPT
            !.activeSettingIndex = d.activeSettingIndex + 1,
            !.scrollOffset =
              IF d.activeSettingIndex + 1 >= d.scrollOffset + maxItemsToShow
                THEN d.scrollOffset + 1 ELSE d.scrollOffset]
    ELSE d

\* the scope the radio buttons highlight after a step up or down
ScopeAt(scope, step) ==
  LET at == CHOOSE k \in DOMAIN ScopeItems : ScopeItems[k] = scope
      to == at + step
  IN  IF to \in DOMAIN ScopeItems THEN ScopeItems[to] ELSE scope

\* toggle() of a setting that is saved at once, lines 129-200
toggleImmediate(d, key, loadedSettings) ==
  LET newValue == ~getSettingValue(key, d.pendingSettings)
      prevPending == setPendingSettingValue(key, newValue, d.pendingSettings)
      saved == saveModifiedSettings({key},
                                    setPendingSettingValue(key, newValue,
                                                           EmptySettings),
                                    loadedSettings, d.selectedScope)
      kept == d.modifiedSettings \ {key}
      updatedPending ==
        [k \in DOMAIN saved[d.selectedScope] \cup kept |->
           IF k \in kept THEN getSettingValue(k, prevPending)
           ELSE saved[d.selectedScope][k]]
  IN  [settings |-> saved,
       dialog |-> [d EXCEPT !.pendingSettings = updatedPending,
                            !.modifiedSettings = kept,
                            !.restartRequiredSettings = @ \ {key}]]

\* toggle() of a setting that requires a restart, lines 129-133, 202-222
toggleRestartRequired(d, key, loadedSettings) ==
  LET newValue == ~getSettingValue(key, d.pendingSettings)
      updated == d.modifiedSettings \cup {key}
      needsRestart == hasRestartRequiredSettings(updated)
  IN  [settings |-> loadedSettings,
       dialog |->
         [d EXCEPT
            !.pendingSettings =
              setPendingSettingValue(key, newValue, d.pendingSettings),
            !.modifiedSettings = updated,
            !.showRestartPrompt = IF needsRestart THEN TRUE ELSE @,
            !.restartRequiredSettings =
              IF needsRestart THEN @ \cup {key} ELSE @]]

\* items[activeSettingIndex].toggle()
toggle(d, key, loadedSettings) ==
  IF requiresRestart(key) THEN toggleRestartRequired(d, key, loadedSettings)
  ELSE toggleImmediate(d, key, loadedSettings)

\* Ctrl+C or Ctrl+L, lines 269-310
clearSetting(d, key, loadedSettings) ==
  LET defaultValue == getDefaultValue(key)
  IN  [settings |->
         IF requiresRestart(key) THEN loadedSettings
         ELSE saveModifiedSettings({key},
                                   setPendingSettingValue(key, defaultValue,
                                                          EmptySettings),
                                   loadedSettings, d.selectedScope),
       dialog |->
         [d EXCEPT
            !.pendingSettings =
              setPendingSettingValue(key, defaultValue, d.pendingSettings),
            !.modifiedSettings = @ \ {key},
            !.restartRequiredSettings = @ \ {key}]]

\* the number of key presses that change a value in one session
MaxChanges == 2

Accepting == dialog.rendered /\ ~dialog.restartRequested

\* the dialog has left the screen
Closed == [rendered |-> FALSE, closed |-> TRUE]

\* what the user finds saved when the dialog opens
SavedSettings ==
  { [NoSettings EXCEPT !["User"] = [showMemoryUsage |-> TRUE],
                       !["Workspace"] = [vimMode |-> TRUE]] }

\* the dialog is opened
OpenDialog(loadedSettings) ==
  /\ dialog = Unrendered
  /\ settings' = loadedSettings
  /\ dialog' = SettingsDialog(loadedSettings)
  /\ UNCHANGED <<coreVars, notDialog, lastToggle>>

\* Tab
KeyTab ==
  /\ Accepting
  /\ dialog' = [dialog EXCEPT
                  !.focusSection =
                    IF @ = "settings" THEN "scope" ELSE "settings"]
  /\ lastToggle' = NoToggle
  /\ UNCHANGED <<coreVars, notDialog, settings>>

\* the up arrow or k: the setting above, or, the scope section having the
\* focus, the scope above, highlighted by the radio buttons
KeyUp ==
  /\ Accepting
  /\ dialog' =
       IF dialog.focusSection = "settings" THEN moveUp(dialog)
       ELSE LET scope == ScopeAt(dialog.selectedScope, 0 - 1)
            IN  IF scope = dialog.selectedScope THEN dialog
                ELSE runEffects([dialog EXCEPT !.selectedScope = scope],
                                settings)
  /\ lastToggle' = NoToggle
  /\ UNCHANGED <<coreVars, notDialog, settings>>

\* the down arrow or j
KeyDown ==
  /\ Accepting
  /\ dialog' =
       IF dialog.focusSection = "settings" THEN moveDown(dialog)
       ELSE LET scope == ScopeAt(dialog.selectedScope, 1)
            IN  IF scope = dialog.selectedScope THEN dialog
                ELSE runEffects([dialog EXCEPT !.selectedScope = scope],
                                settings)
  /\ lastToggle' = NoToggle
  /\ UNCHANGED <<coreVars, notDialog, settings>>

\* Enter or space: the active setting is toggled, or, the scope section
\* having the focus, the highlighted scope is selected and the focus
\* returns to the settings
KeyEnter ==
  /\ Accepting
  /\ IF dialog.focusSection = "settings"
       THEN LET key == ItemAt(dialog.activeSettingIndex)
                toggled == toggle(dialog, key, settings)
            IN  /\ dialog.changes < MaxChanges
                /\ settings' = toggled.settings
                /\ dialog' = runEffects([toggled.dialog EXCEPT
                                           !.changes = @ + 1],
                                        toggled.settings)
                /\ lastToggle' =
                     IF lastToggle.count > 0 /\ lastToggle.key = key
                       THEN [lastToggle EXCEPT !.count = @ + 1]
                       ELSE [count |-> 1, key |-> key,
                             before |->
                               getSettingValue(key, dialog.pendingSettings)]
       ELSE /\ dialog' = [dialog EXCEPT !.focusSection = "settings"]
            /\ lastToggle' = NoToggle
            /\ UNCHANGED settings
  /\ UNCHANGED <<coreVars, notDialog>>

\* Ctrl+C or Ctrl+L: the active setting is reset to its default
KeyClear ==
  /\ Accepting
  /\ IF dialog.focusSection = "settings"
       THEN LET key == ItemAt(dialog.activeSettingIndex)
                cleared == clearSetting(dialog, key, settings)
            IN  /\ dialog.changes < MaxChanges
                /\ settings' = cleared.settings
                /\ dialog' = runEffects([cleared.dialog EXCEPT
                                           !.changes = @ + 1],
                                        cleared.settings)
       ELSE UNCHANGED <<settings, dialog>>
  /\ lastToggle' = NoToggle
  /\ UNCHANGED <<coreVars, notDialog>>

\* r while the restart prompt is shown, lines 313-331
KeyR ==
  /\ Accepting
  /\ dialog.showRestartPrompt
  /\ LET restartRequiredSet ==
           getRestartRequiredFromModified(dialog.modifiedSettings)
     IN  settings' =
           IF restartRequiredSet # {}
             THEN saveModifiedSettings(restartRequiredSet,
                                       dialog.pendingSettings, settings,
                                       dialog.selectedScope)
             ELSE settings
  /\ dialog' = [dialog EXCEPT !.showRestartPrompt = FALSE,
                              !.restartRequiredSettings = {},
                              !.restartRequested = TRUE]
  /\ UNCHANGED <<coreVars, notDialog, lastToggle>>

\* Escape: onSelect(undefined, selectedScope) closes the dialog
KeyEscape ==
  /\ Accepting
  /\ dialog' = Closed
  /\ lastToggle' = NoToggle
  /\ UNCHANGED <<coreVars, notDialog, settings>>

DialogNext ==
  \/ \E loadedSettings \in SavedSettings : OpenDialog(loadedSettings)
  \/ KeyTab
  \/ KeyUp
  \/ KeyDown
  \/ KeyEnter
  \/ KeyClear
  \/ KeyR
  \/ KeyEscape

DialogSpec == Init /\ [][DialogNext]_vars

(***************************************************************************)
(* The user message: UserMessage reads the images its text refers to and   *)
(* shows them once they are read; imageUtils.ts, lines 11-105.             *)
(***************************************************************************)
IMAGE_EXTENSIONS == <<".png", ".jpg", ".jpeg", ".gif", ".webp", ".bmp", ".svg">>

MIME_TYPE_MAP ==
  [ext \in {IMAGE_EXTENSIONS[k] : k \in DOMAIN IMAGE_EXTENSIONS} |->
     CASE ext = ".png" -> "image/png"
       [] ext = ".jpg" -> "image/jpeg"
       [] ext = ".jpeg" -> "image/jpeg"
       [] ext = ".gif" -> "image/gif"
       [] ext = ".webp" -> "image/webp"
       [] ext = ".bmp" -> "image/bmp"
       [] ext = ".svg" -> "image/svg+xml"]

UpperCase == "ABCDEFGHIJKLMNOPQRSTUVWXYZ"
LowerCase == "abcdefghijklmnopqrstuvwxyz"

\* s.toLowerCase()
RECURSIVE toLowerCase(_)
toLowerCase(s) ==
  IF s = "" THEN ""
  ELSE LET at == {k \in 1 .. Len(UpperCase) : SubSeq(UpperCase, k, k) = Head(s)}
       IN  (IF at = {} THEN Head(s)
            ELSE LET k == CHOOSE k \in at : TRUE IN SubSeq(LowerCase, k, k))
           \o toLowerCase(Tail(s))

\* the positions of a character in a string
PositionsOf(char, s) == {k \in 1 .. Len(s) : SubSeq(s, k, k) = char}

Largest(numbers) == CHOOSE n \in numbers : \A m \in numbers : m <= n

\* path.basename(p) and path.extname(p)
basename(p) ==
  IF PositionsOf("/", p) = {} THEN p
  ELSE SubSeq(p, Largest(PositionsOf("/", p)) + 1, Len(p))

extname(p) ==
  LET base == basename(p)
      dots == PositionsOf(".", base) \ {1}
  IN  IF dots = {} THEN "" ELSE SubSeq(base, Largest(dots), Len(base))

isImageFile(filePath) ==
  \E k \in DOMAIN IMAGE_EXTENSIONS :
    IMAGE_EXTENSIONS[k] = toLowerCase(extname(filePath))

getImageMimeType(filePath) ==
  LET ext == toLowerCase(extname(filePath))
  IN  IF ext \in DOMAIN MIME_TYPE_MAP THEN MIME_TYPE_MAP[ext] ELSE "image/png"

\* path.isAbsolute(p), and path.resolve(root, p) of a path without . and ..
\* segments
isAbsolute(p) == startsWith(p, "/")
resolve(root, p) == IF root = "/" THEN root \o p ELSE root \o "/" \o p

\* the characters the class [^\s,;!?()[\]{}] of atPathRegex excludes
ExcludedChars == {" ", "\n", "\t", ",", ";", "!", "?", "(", ")", "[", "]", "{", "}"}

\* the alternatives (png|jpg|jpeg|gif|webp|bmp|svg), in their order
RegexExtensions == <<"png", "jpg", "jpeg", "gif", "webp", "bmp", "svg">>

\* the alternative that matches at position k of the text, ignoring case,
\* the first in the order of the alternatives; 0 when none does
AlternativeAt(text, k) ==
  LET matching ==
        {a \in DOMAIN RegexExtensions :
           /\ k + Len(RegexExtensions[a]) - 1 <= Len(text)
           /\ toLowerCase(SubSeq(text, k, k + Len(RegexExtensions[a]) - 1))
                = RegexExtensions[a]}
  IN  IF matching = {} THEN 0
      ELSE CHOOSE a \in matching : \A b \in matching : a <= b

\* the end of the match of atPathRegex that starts with the @ at position
\* at, 0 when there is none: the class matches as many characters as it
\* can and still be followed by a dot and an alternative
MatchEnd(text, at) ==
  LET stops == {k \in at + 1 .. Len(text) : SubSeq(text, k, k) \in ExcludedChars}
      runEnd == IF stops = {} THEN Len(text)
                ELSE (CHOOSE k \in stops : \A m \in stops : k <= m) - 1
      dots == {k \in at + 2 .. runEnd :
                 /\ SubSeq(text, k, k) = "."
                 /\ AlternativeAt(text, k + 1) # 0
                 /\ k + Len(RegexExtensions[AlternativeAt(text, k + 1)]) <= runEnd}
  IN  IF dots = {} THEN 0
      ELSE Largest(dots) + Len(RegexExtensions[AlternativeAt(text, Largest(dots) + 1)])

\* the loop of lines 58-67 from position from of the text on
RECURSIVE extractImagePathsFrom(_, _, _)
extractImagePathsFrom(text, workspaceRoot, from) ==
  IF from > Len(text) THEN <<>>
  ELSE IF SubSeq(text, from, from) = "@" /\ MatchEnd(text, from) # 0
    THEN LET imagePath == SubSeq(text, from + 1, MatchEnd(text, from))
             resolvedPath == IF isAbsolute(imagePath) THEN imagePath
                             ELSE resolve(workspaceRoot, imagePath)
         IN  (IF isImageFile(resolvedPath) THEN <<resolvedPath>> ELSE <<>>)
             \o extractImagePathsFrom(text, workspaceRoot,
                                      MatchEnd(text, from) + 1)
  ELSE extractImagePathsFrom(text, workspaceRoot, from + 1)

extractImagePaths(text, workspaceRoot) ==
  extractImagePathsFrom(text, workspaceRoot, 1)

\* what readImagesAsImageResult(imagePaths) resolves with on the file
\* system fs: null, or the images that can be accessed
readImagesAsImageResult(imagePaths, fs) ==
  LET accessible(imagePath) == imagePath \in DOMAIN fs
      images ==
        [k \in 1 .. Len(SelectSeq(imagePaths, accessible)) |->
           LET imagePath == SelectSeq(imagePaths, accessible)[k]
           IN  [filePath |-> imagePath,
                mimeType |-> getImageMimeType(imagePath),
                alt |-> basename(imagePath)]]
  IN  IF Len(imagePaths) = 0 THEN JsNull
      ELSE IF Len(images) = 0 THEN JsNull
      ELSE [images |-> images]

\* the texts of a user message and the workspace roots
Texts == {"hello", "see @x.png", "@/b.png, @X.PNG and @notes.txt", "@pic.jpeg"}
WorkspaceRoots == {"/tmp", "/"}

\* extractImagePaths of each text and workspace root, computed once
imagePathsOf ==
  [text \in Texts, workspaceRoot \in WorkspaceRoots |->
     extractImagePaths(text, workspaceRoot)]

\* the effect of lines 39-52 in the message m: a read is started, or the
\* image result is set to null
showImagesOfText(m) ==
  LET imagePaths == imagePathsOf[m.text, m.workspaceRoot]
  IN  IF Len(imagePaths) > 0
        THEN [m EXCEPT !.reads = Append(@, imagePaths)]
        ELSE [m EXCEPT !.imageResult = JsNull]

\* the number of times the props of a message change
MaxRenders == 2

\* the message is rendered for the first time
MountMessage(text, workspaceRoot) ==
  /\ userMessage = Unrendered
  /\ userMessage' =
       showImagesOfText([rendered |-> TRUE, text |-> text,
                         workspaceRoot |-> workspaceRoot,
                         imageResult |-> JsNull, reads |-> <<>>,
                         renders |-> 0])
  /\ UNCHANGED <<coreVars, notUserMessage>>

\* the message is rendered with another text or workspace root
ChangeMessage(text, workspaceRoot) ==
  /\ userMessage.rendered
  /\ userMessage.renders < MaxRenders
  /\ text # userMessage.text \/ workspaceRoot # userMessage.workspaceRoot
  /\ userMessage' =
       showImagesOfText([userMessage EXCEPT !.text = text,
                                            !.workspaceRoot = workspaceRoot,
                                            !.renders = @ + 1])
  /\ UNCHANGED <<coreVars, notUserMessage>>

\* a read settles, any of those in flight: its then reaction sets the
\* image result
ReadSettles(k) ==
  /\ userMessage.rendered
  /\ k \in DOMAIN userMessage.reads
  /\ userMessage' =
       [userMessage EXCEPT
          !.imageResult = readImagesAsImageResult(userMessage.reads[k], files),
          !.reads = SubSeq(@, 1, k - 1) \o SubSeq(@, k + 1, Len(@))]
  /\ UNCHANGED <<coreVars, notUserMessage>>

MessageNext ==
  \/ \E text \in Texts, workspaceRoot \in WorkspaceRoots :
       MountMessage(text, workspaceRoot)
  \/ \E text \in Texts, workspaceRoot \in WorkspaceRoots :
       ChangeMessage(text, workspaceRoot)
  \/ \E k \in 1 .. MaxRenders + 1 : ReadSettles(k)

MessageSpec == NormInit /\ [][MessageNext]_vars

(***************************************************************************)
(* Properties of the confirmation gate.                                    *)
(***************************************************************************)
\* the step in which getConfirmationDetails of slot i returns
GateReturns(i) == confirmation[i] = NotCalled /\ confirmation'[i] # NotCalled

\* the folder is trusted and the tool's trust flag is set
FolderAndToolTrusted(i) ==
  inv[i].hasConfig /\ folderTrusted /\ inv[i].trust = "true"

KeyOfServer(i) == inv[i].serverName
KeyOfTool(i) == inv[i].serverName \o <<".">> \o inv[i].serverToolName
InAllowlist(i) == KeyOfServer(i) \in allowlist \/ KeyOfTool(i) \in allowlist

\* C1: when it is not the case that the folder is trusted and the trust
\* flag is set, and neither the server key nor the server.tool key is in
\* the allowlist, getConfirmationDetails returns a confirmation request,
\* which carries the server name, the raw server tool name as toolName and
\* the display name as toolDisplayName.
C1_RequestsConfirmation ==
  [][\A i \in Slots :
       (GateReturns(i) /\ ~FolderAndToolTrusted(i) /\ ~InAllowlist(i))
         => /\ confirmation'[i].kind = "mcp"
            /\ confirmation'[i].serverName = inv[i].serverName
            /\ confirmation'[i].toolName = inv[i].serverToolName
            /\ confirmation'[i].toolDisplayName = inv[i].displayName]_vars

C1_Witness ==
  \E i \in Slots :
    /\ pc[i] = "awaiting"
    /\ confirmation[i].kind = "mcp"
    /\ ~FolderAndToolTrusted(i)
    /\ ~InAllowlist(i)

\* C2: getConfirmationDetails returns 'no confirmation needed' whenever
\* the folder-trusted predicate and the trust flag are both true, whatever
\* the allowlist holds; a trust flag in an untrusted folder or without a
\* config, and a trusted folder with an unset trust flag, do not suppress
\* the confirmation of an invocation that is not allowlisted.
C2_TrustedNeedsNoConfirmation ==
  [][\A i \in Slots :
       GateReturns(i) =>
         /\ FolderAndToolTrusted(i) => confirmation'[i] = NoConfirmationNeeded
         /\ ( /\ ~InAllowlist(i)
              /\ \/ inv[i].trust = "true" /\ ~(inv[i].hasConfig /\ folderTrusted)
                 \/ inv[i].hasConfig /\ folderTrusted /\ inv[i].trust # "true" )
            => confirmation'[i].kind = "mcp"]_vars

C2_Witness ==
  \E i, j \in Slots :
    /\ confirmation[i] = NoConfirmationNeeded
    /\ FolderAndToolTrusted(i)
    /\ ~InAllowlist(i)
    /\ confirmation[j].kind = "mcp"
    /\ inv[j].trust = "true"
    /\ ~inv[j].hasConfig

\* C3: getConfirmationDetails returns 'no confirmation needed' whenever
\* the allowlist holds the key serverName or the key
\* serverName.serverToolName of the invocation.
C3_AllowlistedNeedsNoConfirmation ==
  [][\A i \in Slots :
       (GateReturns(i) /\ InAllowlist(i))
         => confirmation'[i] = NoConfirmationNeeded]_vars

C3_Witness ==
  \E i \in Slots :
    /\ confirmation[i] = NoConfirmationNeeded
    /\ ~FolderAndToolTrusted(i)
    /\ inv[i].trust # "true"
    /\ KeyOfTool(i) \in allowlist
    /\ KeyOfServer(i) \notin allowlist

\* the slots whose confirmation request this step resolves with outcome
ResolvedWith(outcome) ==
  {i \in Slots : resolution[i] = "none" /\ resolution'[i] = outcome}

\* C4: resolving a confirmation request with proceed-always-server adds
\* exactly the server key to the allowlist, with proceed-always-tool
\* exactly the server.tool key, and with any other outcome nothing; no
\* other operation changes the allowlist.
C4_AllowlistChangesOnlyByAlways ==
  [][allowlist' =
       allowlist
         \cup {KeyOfServer(i) : i \in ResolvedWith("ProceedAlwaysServer")}
         \cup {KeyOfTool(i) : i \in ResolvedWith("ProceedAlwaysTool")}]_vars

C4_Witness ==
  \E i, j \in Slots :
    /\ resolution[i] = "ProceedAlwaysTool"
    /\ KeyOfTool(i) \in allowlist
    /\ KeyOfServer(i) \notin allowlist
    /\ resolution[j] = "ProceedOnce"
    /\ ~InAllowlist(j)

\* C5: once proceed-always-server has been chosen for a server, every
\* later getConfirmationDetails of an invocation of that server returns
\* 'no confirmation needed', for every tool and every combination of the
\* folder-trust and tool-trust flags.
C5_AlwaysServerSilencesServer ==
  [][\A i \in Slots :
       (GateReturns(i) /\ inv[i].serverName \in alwaysServer)
         => confirmation'[i] = NoConfirmationNeeded]_vars

C5_Witness ==
  \E i, j \in Slots :
    /\ resolution[i] = "ProceedAlwaysServer"
    /\ confirmation[j] = NoConfirmationNeeded
    /\ inv[j].serverName = inv[i].serverName
    /\ inv[j].serverToolName # inv[i].serverToolName
    /\ ~FolderAndToolTrusted(j)
    /\ KeyOfTool(j) \notin allowlist

\* the keys of all always-allow resolutions so far
AlwaysAllowedKeys ==
  alwaysServer \cup {p[1] \o <<".">> \o p[2] : p \in alwaysTool}

\* C6: in every interleaving of gate decisions and confirmation
\* resolutions of concurrent invocations the allowlist only grows,
\* resolving with a key that is already present changes nothing, and the
\* allowlist is the union of the keys of all always-allow resolutions.
C6_AllowlistMonotonic ==
  /\ [](allowlist = AlwaysAllowedKeys)
  /\ [][/\ allowlist \subseteq allowlist'
        /\ \A i \in ResolvedWith("ProceedAlwaysServer") :
             KeyOfServer(i) \in allowlist => allowlist' = allowlist
        /\ \A i \in ResolvedWith("ProceedAlwaysTool") :
             KeyOfTool(i) \in allowlist => allowlist' = allowlist]_vars

\* two concurrent confirmations of one server, both resolved always-server
C6_Witness ==
  \E i, j \in Slots :
    /\ i # j
    /\ resolution[i] = "ProceedAlwaysServer"
    /\ resolution[j] = "ProceedAlwaysServer"
    /\ inv[i].serverName = inv[j].serverName
    /\ Cardinality(allowlist) > 1

(***************************************************************************)
(* Properties of the executor.                                             *)
(***************************************************************************)
ProceedOutcomes ==
  {"ProceedOnce", "ProceedAlways", "ProceedAlwaysServer", "ProceedAlwaysTool"}

\* C7: the external callTool of an invocation is started only after the
\* gate returned 'no confirmation needed' for it or the user resolved its
\* confirmation request with a proceed outcome; an invocation whose
\* confirmation is pending or was declined never reaches the call.
C7_CallOnlyAfterApproval ==
  [][\A i \in Slots :
       /\ pc[i] \in {"created", "awaiting", "declined"} => callCount'[i] = 0
       /\ callCount'[i] > callCount[i]
            => \/ confirmation[i] = NoConfirmationNeeded
               \/ /\ confirmation[i].kind = "mcp"
                  /\ resolution[i] \in ProceedOutcomes]_vars

C7_Witness ==
  \E i, j \in Slots :
    /\ callCount[i] = 1
    /\ pc[i] = "executing"
    /\ pc[j] = "declined"
    /\ resolution[j] = "Cancel"
    /\ callCount[j] = 0

\* the first event of the log that is one of kinds, or "none"
FirstIn(log, kinds) ==
  LET at == {k \in 1 .. Len(log) : log[k] \in kinds}
  IN  IF at = {} THEN "none"
      ELSE log[CHOOSE k \in at : \A m \in at : k <= m]

\* execute was entered with the signal aborted already
EnteredAborted(i) ==
  Len(events[i]) >= 2 /\ events[i][1] = "abort" /\ events[i][2] = "entered"

\* C8: execute with a signal that is aborted at entry never invokes the
\* external callTool, registers no abort listener and ends as Cancelled
\* (the AbortError of lines 271-273).
C8_AbortedAtEntry ==
  \A i \in Slots :
    EnteredAborted(i) =>
      /\ callCount[i] = 0
      /\ callState[i] = NoCall
      /\ signal[i].listeners = 0
      /\ race[i] = Rejected(AbortError)
      /\ pc[i] = "settled" => result[i] = Rejected(AbortError)

C8_Witness ==
  \E i \in Slots :
    EnteredAborted(i) /\ pc[i] = "settled" /\ result[i] = Rejected(AbortError)

\* what the external call ended with: its promise's outcome, or the
\* error it threw
CallOutcome(i) ==
  IF callState[i].promise.state = "threw"
    THEN Rejected(callState[i].promise.error)
    ELSE callState[i].promise

\* execute of slot i ended as the outcome o of the call
EndsAs(i, o) ==
  /\ race[i] = o
  /\ pc[i] = "settled" =>
       /\ o.state = "rejected" => result[i] = o
       /\ o.state = "resolved" =>
            result[i].state = "resolved" /\ result[i].value.raw = o.value

Cancelled(i) ==
  /\ race[i] = Rejected(AbortError)
  /\ pc[i] = "settled" => result[i] = Rejected(AbortError)

\* C9 as claimed: of 'the external call settles' and 'abort fires',
\* the one that happens first decides how execute ends.
C9_FirstEventWins ==
  \A i \in Slots :
    (callCount[i] = 1 /\ IsSettled(race[i])) =>
      LET first == FirstIn(events[i], {"abort", "settled", "threw"})
      IN  /\ first = "abort" => Cancelled(i)
          /\ first \in {"settled", "threw"} => EndsAs(i, CallOutcome(i))

\* C9, amended: of 'the reaction to the settled call runs' and 'abort
\* fires', exactly one is acted upon.  If abort fires before the reaction
\* has run, execute ends as Cancelled and the call's fulfilment or
\* rejection is discarded; if the reaction runs first (or the call fails
\* when started), execute ends as the call did and a later abort has no
\* effect; execute never settles twice.
C9_FirstHandlerWins ==
  /\ [](\A i \in Slots :
         callCount[i] = 1 =>
           LET first == FirstIn(events[i], {"abort", "delivered", "threw"})
           IN  /\ first = "none" => race[i] = Pending
               /\ first = "abort" => Cancelled(i)
               /\ first \in {"delivered", "threw"} => EndsAs(i, CallOutcome(i)))
  /\ [][\A i \in Slots :
          pc'[i] # "free" =>
            /\ IsSettled(race[i]) => race'[i] = race[i]
            /\ IsSettled(result[i]) => result'[i] = result[i]]_vars

\* abort won, the call fulfilled afterwards and its reaction ran
C9_Witness ==
  \E i \in Slots :
    /\ events[i] = <<"entered", "abort", "settled", "delivered">>
    /\ callState[i].promise.state = "resolved"
    /\ pc[i] = "settled"
    /\ result[i] = Rejected(AbortError)

\* C10: on every path on which execute settles, no abort listener that
\* execute registered remains attached to the signal afterwards.
C10_NoListenerAfterSettle ==
  \A i \in Slots : pc[i] = "settled" => signal[i].listeners = 0

(***************************************************************************)
(* Properties of the results of execute.                                   *)
(***************************************************************************)
\* the result object has the fields of a ToolResult
WellFormed(v) ==
  /\ {"llmContent", "returnDisplay"} \subseteq DOMAIN v
  /\ v.llmContent.type \in {"string", "array"}
  /\ \/ Has(v.returnDisplay, "type") /\ v.returnDisplay.type = "string"
     \/ Has(v.returnDisplay, "images") /\ Len(v.returnDisplay.images) > 0

ErrorFlag(raw) ==
  IF /\ Len(raw) > 0
     /\ Has(raw[1], "functionResponse")
     /\ Has(raw[1].functionResponse, "response")
     /\ Has(raw[1].functionResponse.response, "error")
     /\ Has(raw[1].functionResponse.response.error, "isError")
    THEN raw[1].functionResponse.response.error.isError
    ELSE [type |-> "undefined", value |-> "undefined"]

\* C12: when the call's response wins the race, the result is a tool error
\* result (error type MCP_TOOL_ERROR) if and only if error.isError of the
\* first response element is the boolean true or the string "true"; its
\* message is the model content as well and holds the serialized function
\* call {name, args} of the invocation and the serialized raw response,
\* the display string names the tool, and the model content is not the
\* list of parts of the normalizer.
C12_ToolErrorIffFlagged ==
  \A i \in Slots :
    (pc[i] = "settled" /\ race[i].state = "resolved") =>
      LET raw == race[i].value
          v == result[i].value
      IN  /\ result[i].state = "resolved"
          /\ Has(v, "error") <=> ErrorFlag(raw) \in {JsTrue, JsStringTrue}
          /\ Has(v, "error") =>
               /\ v.error.type = "MCP_TOOL_ERROR"
               /\ v.error.message = v.llmContent
               /\ v.llmContent.type = "string"
               /\ v.llmContent.functionCall =
                    [json |-> [name |-> inv[i].serverToolName,
                               args |-> inv[i].params]]
               /\ v.llmContent.response = [json |-> raw]
               /\ v.returnDisplay =
                    JsString("Error: MCP tool '" \o Str(inv[i].serverToolName)
                             \o "' reported an error.")

\* a response flagged with the string "true", and the tool named u
C12_Witness ==
  \E i \in Slots :
    /\ pc[i] = "settled"
    /\ race[i].state = "resolved"
    /\ ErrorFlag(race[i].value) = JsStringTrue
    /\ inv[i].serverToolName = <<"u">>
    /\ result[i].value.returnDisplay =
         JsString("Error: MCP tool 'u' reported an error.")

\* C13 as claimed: if the external call fails with error e before any
\* abort fires, execute rejects with e.
C13_FailureBeforeAbortPropagates ==
  \A i \in Slots :
    ( /\ pc[i] = "settled"
      /\ callCount[i] = 1
      /\ CallOutcome(i).state = "rejected"
      /\ FirstIn(events[i], {"abort", "settled", "threw"}) \in {"settled", "threw"} )
      => result[i] = CallOutcome(i)

\* C13, amended: if the external call fails with error e and its failure
\* is delivered to execute (the catch reaction runs, or callTool throws
\* when it is called) before any abort fires, execute rejects with that
\* same error e and returns no result object.
C13_DeliveredFailurePropagates ==
  \A i \in Slots :
    ( /\ pc[i] = "settled"
      /\ callCount[i] = 1
      /\ CallOutcome(i).state = "rejected"
      /\ FirstIn(events[i], {"abort", "delivered", "threw"}) \in {"delivered", "threw"} )
      => /\ result[i] = Rejected(CallOutcome(i).error)
         /\ result[i].error \in TransportErrors

\* the call failed, its failure was delivered, then abort fired
C13_Witness ==
  \E i \in Slots :
    /\ pc[i] = "settled"
    /\ events[i] = <<"entered", "settled", "delivered", "abort">>
    /\ callState[i].promise = Rejected("ECONNRESET")
    /\ result[i] = Rejected("ECONNRESET")

\* the response of the call carries no embedded error
Unflagged(o) ==
  o.state = "resolved" /\ ErrorFlag(o.value) \notin {JsTrue, JsStringTrue}

\* slot i holds the result of lines 316-321 for the raw response raw
NormalizedOf(i, raw) ==
  /\ result[i].state = "resolved"
  /\ ~Has(result[i].value, "error")
  /\ result[i].value.llmContent = JsArray(transformMcpContentToParts(raw))
  /\ \E writeFails \in BOOLEAN :
       result[i].value.returnDisplay =
         getStringifiedResultForDisplay(raw, files, clock, writeFails).returnDisplay

C15_OneCallNoRetry ==
  /\ [](\A i \in Slots :
          /\ callCount[i] <= 1
          /\ pc[i] \in {"executing", "settled"} =>
               callCount[i] = IF EnteredAborted(i) THEN 0 ELSE 1
          /\ callCount[i] = 1 =>
               callState[i].args = <<[name |-> inv[i].serverToolName,
                                      args |-> inv[i].params]>>)
  /\ [][\A i \in Slots :
          (pc[i] \in {"approved", "executing", "settled"} /\ pc'[i] # "free") =>
            /\ inv'[i] = inv[i]
            /\ pc[i] # "approved" => /\ callCount'[i] = callCount[i]
                                     /\ callState'[i].args = callState[i].args]_vars

\* the call failed and execute ended without a second call
C15_Witness ==
  \E i \in Slots :
    /\ pc[i] = "settled"
    /\ result[i] = Rejected("ECONNRESET")
    /\ callCount[i] = 1
    /\ callState[i].args = <<[name |-> <<"u">>, args |-> "{}"]>>

(***************************************************************************)
(* Properties of the normalizer.                                           *)
(***************************************************************************)
\* the response that was normalized has a content list
GivenContent ==
  /\ request.given
  /\ Len(request.raw) > 0
  /\ Has(request.raw[1], "functionResponse")
  /\ Has(request.raw[1].functionResponse, "response")
  /\ Has(request.raw[1].functionResponse.response, "content")
  /\ isArray(request.raw[1].functionResponse.response.content)

GivenBlocks == request.raw[1].functionResponse.response.content

\* the tool the response names
GivenToolName ==
  IF Has(request.raw[1].functionResponse, "name")
    THEN request.raw[1].functionResponse.name
    ELSE "unknown tool"

\* the ways to cut the parts into one run of 0, 1 or 2 parts per block, in
\* the order of the blocks: cut[k] parts belong to the first k blocks
Cuts ==
  { cut \in [0 .. Len(GivenBlocks) -> 0 .. Len(parts)] :
      /\ cut[0] = 0
      /\ cut[Len(GivenBlocks)] = Len(parts)
      /\ \A k \in 1 .. Len(GivenBlocks) :
           cut[k] >= cut[k - 1] /\ cut[k] <= cut[k - 1] + 2 }

\* the parts block k expanded to under the cut
Run(cut, k) == SubSeq(parts, cut[k - 1] + 1, cut[k])

KnownTypes == {"text", "image", "audio", "resource", "resource_link"}

\* the title of a link block, or its name when there is no title
LinkLabel(b) ==
  IF Has(b, "title") /\ b.title # "" THEN b.title
  ELSE IF Has(b, "name") THEN b.name ELSE "undefined"

\* C16: the model parts of a well-formed content list are the in-order
\* concatenation of one run of 0, 1 or 2 parts per block, in which a text
\* block gives exactly one text part with its text, a resource link
\* exactly one text part that names its title (its name without a title)
\* and its URI, and a block of an unrecognized type no part.
C16_PartsConcatenateExpansions ==
  GivenContent =>
    \E cut \in Cuts :
      \A k \in 1 .. Len(GivenBlocks) :
        LET b == GivenBlocks[k] IN
          /\ b.type = "text" => Run(cut, k) = <<[text |-> b.text]>>
          /\ b.type = "resource_link" =>
               Run(cut, k) = <<[text |-> "Resource Link: " \o LinkLabel(b)
                                         \o " at " \o b.uri]>>
          /\ b.type \notin KnownTypes => Run(cut, k) = <<>>

\* a block of an unknown type, then a text
C16_Witness ==
  /\ GivenContent
  /\ GivenBlocks = <<[type |-> "video"], [type |-> "text", text |-> "done"]>>
  /\ parts = <<[text |-> "done"]>>

Present(b, f) == Has(b, f) /\ b[f] # ""

\* what follows the description of a media block
MediaPayloadPart(b) ==
  IF Present(b, "filePath")
    THEN [fileData |->
            [fileUri  |-> IF Len(b.filePath) >= 7 /\ SubSeq(b.filePath, 1, 7) = "file://"
                            THEN b.filePath
                            ELSE "file://" \o b.filePath,
             mimeType |-> b.mimeType]]
  ELSE IF Present(b, "uri")
    THEN [fileData |-> [fileUri |-> b.uri, mimeType |-> b.mimeType]]
  ELSE IF Present(b, "data")
    THEN [inlineData |-> [mimeType |-> b.mimeType, data |-> b.data]]
  ELSE [text |-> "[No image payload provided]"]

\* C17: an image or audio block expands to exactly two parts, which for a
\* block with a mime type are a text that names the tool, the kind of media
\* and the mime type,
\* then a file reference when a file path or a URI is present (the file
\* path whenever there is one, as a file:// URI; the URI only without a
\* file path), else the inline data when there is a non-empty payload,
\* else the 'no payload' text.
C17_MediaExpandsToTwoParts ==
  GivenContent =>
    \E cut \in Cuts :
      \A k \in 1 .. Len(GivenBlocks) :
        LET b == GivenBlocks[k] IN
          b.type \in {"image", "audio"} =>
            /\ Len(Run(cut, k)) = 2
            /\ Has(b, "mimeType") =>
                 Run(cut, k) =
                   << [text |-> "[Tool '" \o GivenToolName
                                \o "' provided the following " \o b.type
                                \o " data with mime-type: " \o b.mimeType \o "]"],
                      MediaPayloadPart(b) >>

\* an image with a file path, a URI and a payload: the file path is used
C17_Witness ==
  /\ GivenContent
  /\ GivenBlocks = << [type |-> "image", mimeType |-> "image/png",
                       filePath |-> "/tmp/x.png", uri |-> "file:///b.png",
                       data |-> "QUJD"] >>
  /\ Len(parts) = 2
  /\ parts[2] = [fileData |-> [fileUri |-> "file:///tmp/x.png",
                               mimeType |-> "image/png"]]

\* C18: a resource block expands to one text part with the resource text
\* when there is a text, also beside a blob; to a description and one
\* inline-data part with the blob, the mime type being
\* application/octet-stream when there is none, when there is a blob and
\* no text; and to no part when there is neither.
C18_ResourceExpansion ==
  GivenContent =>
    \E cut \in Cuts :
      \A k \in 1 .. Len(GivenBlocks) :
        LET b == GivenBlocks[k]
            r == IF Has(b, "resource") THEN b.resource ELSE NoFields
            mimeType == IF Present(r, "mimeType")
                          THEN r.mimeType ELSE "application/octet-stream"
        IN  b.type = "resource" =>
              Run(cut, k) =
                IF Present(r, "text") THEN <<[text |-> r.text]>>
                ELSE IF Present(r, "blob")
                  THEN << [text |-> "[Tool '" \o GivenToolName
                                    \o "' provided the following embedded resource with mime-type: "
                                    \o mimeType \o "]"],
                          [inlineData |-> [mimeType |-> mimeType,
                                           data |-> r.blob]] >>
                ELSE <<>>

\* a resource with a text and a blob gives its text only
C18_Witness ==
  /\ GivenContent
  /\ GivenBlocks = << [type |-> "resource",
                       resource |-> [text |-> "res", blob |-> "QkxPQg=="]] >>
  /\ parts = <<[text |-> "res"]>>

ScenarioImageParts ==
  << [text |-> "[Tool 'unknown tool' provided the following image data with mime-type: image/png]"],
     [fileData |-> [fileUri |-> "file:///tmp/x.png", mimeType |-> "image/png"]] >>

ScenarioImageResult ==
  [images |-> <<[filePath |-> "/tmp/x.png", mimeType |-> "image/png",
                 alt |-> "done"]>>]

\* C19 as claimed: for the content [Text 'done', image image/png with
\* filePath /tmp/x.png] the model parts are exactly the description of the
\* image and its file reference, and the display is the image result with
\* that one image.
C19_ScenarioTwoParts ==
  (request.given /\ request.raw = ScenarioResponse) =>
    /\ parts = ScenarioImageParts
    /\ display = ScenarioImageResult

\* C19, amended: for that content the model parts are exactly three: the
\* text part 'done', then the description of the image and its file
\* reference file:///tmp/x.png with mime type image/png; the display is
\* the image result with the single image {/tmp/x.png, image/png, alt
\* 'done'} when the file /tmp/x.png exists, and the text of the summary
\* lines 'done' and '[Image: image/png]' when it does not.
C19_ScenarioThreeParts ==
  (request.given /\ request.raw = ScenarioResponse) =>
    /\ parts = <<[text |-> "done"]>> \o ScenarioImageParts
    /\ display = IF "/tmp/x.png" \in DOMAIN request.before
                   THEN ScenarioImageResult
                   ELSE JsString("done\n[Image: image/png]")

C19_Witness ==
  /\ request.given
  /\ request.raw = ScenarioResponse
  /\ "/tmp/x.png" \in DOMAIN request.before
  /\ Len(parts) = 3
  /\ display = ScenarioImageResult

\* the path a URI stands for
PathOfUri(uri) ==
  IF Len(uri) >= 7 /\ SubSeq(uri, 1, 7) = "file://"
    THEN SubSeq(uri, 8, Len(uri)) ELSE uri

\* the entry e of an image result shows the block b: it has the block's
\* mime type and the path of a file that existed, named by the block's
\* file path or URI, or of a temp file that holds the block's payload
ShowsBlock(e, b) ==
  /\ b.type = "image"
  /\ Has(b, "mimeType") /\ e.mimeType = b.mimeType
  /\ e.filePath \in DOMAIN files
  /\ \/ /\ e.filePath \in DOMAIN request.before
        /\ \/ Present(b, "filePath") /\ e.filePath = b.filePath
           \/ Present(b, "uri") /\ e.filePath = PathOfUri(b.uri)
     \/ /\ Present(b, "data")
        /\ SubSeq(e.filePath, 1, 5) = "/tmp/"
        /\ files[e.filePath] = Base64Decode(b.data)

\* C20: the display payload is an image result only if at least one image
\* block of the response yielded a resolvable file path (a file that
\* exists, or a temp file just written from its payload), and is text in
\* every other case; an image result has at least one image, its images
\* stand for image blocks only, never for audio blocks, and follow the
\* order of their blocks.
C20_ImageResultOnlyFromResolvedImages ==
  request.given =>
    IF Has(display, "images")
      THEN /\ GivenContent
           /\ Len(display.images) > 0
           /\ \E at \in [1 .. Len(display.images) -> 1 .. Len(GivenBlocks)] :
                /\ \A m, n \in DOMAIN at : m < n => at[m] < at[n]
                /\ \A m \in DOMAIN at :
                     ShowsBlock(display.images[m], GivenBlocks[at[m]])
      ELSE Has(display, "type") /\ display.type = "string"

\* an audio clip and an image, both with a payload only: one image
C20_Witness ==
  /\ GivenContent
  /\ Len(GivenBlocks) = 2
  /\ GivenBlocks[1] = [type |-> "audio", mimeType |-> "audio/wav", data |-> "UklG"]
  /\ GivenBlocks[2].type = "image"
  /\ Has(display, "images")
  /\ Len(display.images) = 1
  /\ display.images[1].filePath = "/tmp/gemini-cli-image-mcp-0-0.png"

\* the ways the entries of the image result stand for blocks of the
\* response, in the order of the blocks: entry m shows block at[m]
Placements ==
  { at \in [1 .. Len(display.images) -> 1 .. Len(GivenBlocks)] :
      /\ \A m, n \in DOMAIN at : m < n => at[m] < at[n]
      /\ \A m \in DOMAIN at : ShowsBlock(display.images[m], GivenBlocks[at[m]]) }

\* an image block with a mime type
IsImage(b) == b.type = "image" /\ Has(b, "mimeType")

\* C21: an image block that carries a file path and a URI, the file path
\* naming a file that exists, is shown with the file path as its path, not
\* with the path of the URI, with or without a base64 payload.
C21_FilePathWinsOverUri ==
  GivenContent =>
    \A k \in 1 .. Len(GivenBlocks) :
      LET b == GivenBlocks[k] IN
        ( /\ IsImage(b)
          /\ Present(b, "filePath") /\ Present(b, "uri")
          /\ b.filePath \in DOMAIN request.before )
        => /\ Has(display, "images")
           /\ \E at \in Placements :
                \E m \in DOMAIN at :
                  /\ at[m] = k
                  /\ display.images[m].filePath = b.filePath

\* both files exist and there is a payload: the file path is shown
C21_Witness ==
  /\ GivenContent
  /\ GivenBlocks = << [type |-> "image", mimeType |-> "image/png",
                       filePath |-> "/tmp/x.png", uri |-> "file:///b.png",
                       data |-> "QUJD"] >>
  /\ {"/tmp/x.png", "/b.png"} \subseteq DOMAIN request.before
  /\ display = [images |-> <<[filePath |-> "/tmp/x.png",
                              mimeType |-> "image/png"]>>]

\* block k of the response is shown in the image result with the path
ShownAt(k, path) ==
  /\ Has(display, "images")
  /\ \E at \in Placements :
       \E m \in DOMAIN at :
         at[m] = k /\ display.images[m].filePath = path

\* the block's file path names a file that existed before the call
FilePathExists(b) ==
  Present(b, "filePath") /\ b.filePath \in DOMAIN request.before

\* the block's URI, without its file:// prefix, names such a file
UriExists(b) ==
  Present(b, "uri") /\ PathOfUri(b.uri) \in DOMAIN request.before

\* C22: the path of an image block is resolved by trying, in this order,
\* its file path, its URI without the file:// prefix, and its base64
\* payload written to a temp file, a candidate that fails its existence
\* check giving way to the next: a block whose file path does not exist
\* and whose URI names an existing file is shown with the URI's path.
C22_FallsThroughToNextCandidate ==
  GivenContent =>
    \A k \in 1 .. Len(GivenBlocks) :
      LET b == GivenBlocks[k] IN
        IsImage(b) =>
          /\ FilePathExists(b) => ShownAt(k, b.filePath)
          /\ (~FilePathExists(b) /\ UriExists(b)) =>
               ShownAt(k, PathOfUri(b.uri))
          /\ ( /\ ~FilePathExists(b) /\ ~UriExists(b)
               /\ Present(b, "data") /\ ~request.writeFails )
             => \E w \in DOMAIN request.written :
                  ShownAt(k, request.written[w])

\* no method gives the block a path: neither its file path nor its URI
\* names an existing file, and it has no payload or the write of its temp
\* file fails
Unresolvable(b) ==
  /\ ~FilePathExists(b)
  /\ ~UriExists(b)
  /\ ~Present(b, "data") \/ request.writeFails

\* the candidate the block is looked up by exists, or its payload is
\* written
Resolves(b) ==
  \/ IF Present(b, "filePath") THEN FilePathExists(b) ELSE UriExists(b)
  \/ Present(b, "data") /\ ~request.writeFails

\* the line of the text summary that stands for a block
SummaryLine(b) ==
  LET mimeType == IF Has(b, "mimeType") THEN b.mimeType ELSE "undefined"
  IN  CASE b.type = "text" -> b.text
        [] b.type = "image" -> "[Image: " \o mimeType \o "]"
        [] b.type = "audio" -> "[Audio: " \o mimeType \o "]"
        [] b.type = "resource_link" ->
             "[Link to " \o LinkLabel(b) \o ": " \o b.uri \o "]"
        [] b.type = "resource" ->
             IF Has(b, "resource") /\ Present(b.resource, "text")
               THEN b.resource.text
               ELSE "[Embedded Resource: "
                    \o (IF Has(b, "resource") /\ Present(b.resource, "mimeType")
                          THEN b.resource.mimeType ELSE "unknown type")
                    \o "]"
        [] OTHER -> "[Unknown content type: " \o b.type \o "]"

\* the lines of the blocks from block k on, joined by newlines
RECURSIVE SummaryFrom(_)
SummaryFrom(k) ==
  IF k > Len(GivenBlocks) THEN ""
  ELSE IF k = Len(GivenBlocks) THEN SummaryLine(GivenBlocks[k])
  ELSE SummaryLine(GivenBlocks[k]) \o "\n" \o SummaryFrom(k + 1)

\* C23: an image block that no method gives a path is left out of the
\* image result while the images of the same response that resolve are
\* kept; when every image block is dropped the display is the text
\* summary of all blocks, the dropped images as their '[Image: mimeType]'
\* lines, not an empty image result.
C23_UnresolvedImagesDropped ==
  GivenContent =>
    LET images == {k \in 1 .. Len(GivenBlocks) : IsImage(GivenBlocks[k])}
        dropped == {k \in images : Unresolvable(GivenBlocks[k])}
        kept == {k \in images : Resolves(GivenBlocks[k])}
    IN  /\ Has(display, "images") =>
             \E at \in Placements :
               LET shown == {at[m] : m \in DOMAIN at}
               IN  kept \subseteq shown /\ shown \cap dropped = {}
        /\ kept # {} => Has(display, "images")
        /\ dropped = images => display = JsString(SummaryFrom(1))

\* the first image has no file and no payload, the second has a payload
C23_Witness ==
  /\ GivenContent
  /\ GivenBlocks =
       << [type |-> "image", mimeType |-> "image/png",
           filePath |-> "/lost.png", uri |-> "file:///b.png"],
          [type |-> "image", mimeType |-> "image/png", data |-> "QUJD"] >>
  /\ "/b.png" \notin DOMAIN request.before
  /\ Has(display, "images")
  /\ Len(display.images) = 1
  /\ display.images[1].filePath \in DOMAIN files \ DOMAIN request.before

\* the texts of the text blocks from block k on, joined by newlines
RECURSIVE CaptionFrom(_)
CaptionFrom(k) ==
  IF k > Len(GivenBlocks) THEN ""
  ELSE IF GivenBlocks[k].type # "text" THEN CaptionFrom(k + 1)
  ELSE IF \E j \in k + 1 .. Len(GivenBlocks) : GivenBlocks[j].type = "text"
    THEN GivenBlocks[k].text \o "\n" \o CaptionFrom(k + 1)
  ELSE GivenBlocks[k].text

\* C24: every image of one image result carries the same caption: the
\* texts of all text blocks of the response joined in their order, and no
\* caption at all when the response has no text block, whatever the
\* position of the image and the way its path was resolved.
C24_OneCaptionForAllImages ==
  (GivenContent /\ Has(display, "images")) =>
    \A m \in 1 .. Len(display.images) :
      IF \E k \in 1 .. Len(GivenBlocks) : GivenBlocks[k].type = "text"
        THEN /\ Has(display.images[m], "alt")
             /\ display.images[m].alt = CaptionFrom(1)
        ELSE ~Has(display.images[m], "alt")

\* an image found by its path and one written from its payload, between
\* two texts: both carry the two texts
C24_Witness ==
  /\ request.given
  /\ request.raw = CaptionResponse
  /\ Has(display, "images")
  /\ Len(display.images) = 2
  /\ display.images[1].filePath = "/tmp/x.png"
  /\ display.images[2].filePath \in DOMAIN files \ DOMAIN request.before
  /\ \A m \in 1 .. 2 : display.images[m].alt = "done\nmore"

\* execute's result for the response that was normalized, had an
\* invocation of the tool received it
ExecuteOutcome(tool) ==
  executeResult(DiscoveredMCPToolInvocation(tool, "{}"),
                Resolved(request.raw), request.before, request.at,
                request.writeFails).result

C26_NormalizerNeverThrows == ~Has(request, "threw")

\* the block carries a payload and neither a file path nor a URI
PayloadOnly(b) ==
  /\ IsImage(b)
  /\ Present(b, "data")
  /\ ~Has(b, "filePath") /\ ~Has(b, "uri")

\* C27: an image block with only a base64 payload and a mime type is
\* shown, when the write succeeds, with the path of a file that did not
\* exist before the call, that exists when the result is returned and
\* whose bytes are the decoding of the payload.
C27_PayloadWrittenToNewFile ==
  (GivenContent /\ ~request.writeFails) =>
    \A k \in 1 .. Len(GivenBlocks) :
      PayloadOnly(GivenBlocks[k]) =>
        \E path \in DOMAIN files \ DOMAIN request.before :
          /\ ShownAt(k, path)
          /\ files[path] = Base64Decode(GivenBlocks[k].data)

\* C28: the temp files written from base64 payloads are uniquely named and
\* written once: no two written images, of one response or of different
\* invocations normalized in the same clock tick, get the same path, and
\* no file that an earlier result refers to is written again.
C28_TempFilesUniqueWriteOnce ==
  request.given =>
    /\ \A v, w \in DOMAIN request.written :
         v # w => request.written[v] # request.written[w]
    /\ \A w \in DOMAIN request.written :
         request.written[w] \notin DOMAIN request.before

\* C29: when the content list is well formed and no image is shown, the
\* display is the text of one summary line per block, in the order of the
\* blocks, joined by newlines: a text verbatim, media as '[Image:
\* mimeType]' or '[Audio: mimeType]', a resource link as its link line, a
\* resource as its text or its mime-type placeholder, an unknown type as
\* its marker; a single text block t gives the parts [{text: t}] and the
\* display t.
C29_TextSummaryPerBlock ==
  (GivenContent /\ ~Has(display, "images")) =>
    /\ display = [type |-> "string", value |-> SummaryFrom(1)]
    /\ (Len(GivenBlocks) = 1 /\ GivenBlocks[1].type = "text") =>
         /\ parts = <<[text |-> GivenBlocks[1].text]>>
         /\ display = [type |-> "string", value |-> GivenBlocks[1].text]

\* a text and a block of an unknown type
C29_Witness ==
  /\ GivenContent
  /\ GivenBlocks = <<[type |-> "text", text |-> "done"], [type |-> "video"]>>
  /\ display = [type |-> "string",
                value |-> "done\n[Unknown content type: video]"]

(***************************************************************************)
(* Properties of the sanitizer.                                            *)
(***************************************************************************)
\* the input with every character that is not allowed replaced by '_'
Substituted ==
  [k \in 1 .. Len(nameInput) |->
     IF nameInput[k] \in Letters \cup Digits \cup {"_", ".", "-"}
       THEN nameInput[k] ELSE "_"]

\* C30: for any input string generateValidName returns a string that
\* matches ^[A-Za-z0-9_.-]+$, so is not empty and has allowed characters
\* only, and that is at most 63 characters long; every character of the
\* input that is not allowed is replaced by '_' and the allowed ones are
\* kept in place, in the whole name when it is not shortened and in the
\* kept head and tail when it is.
C30_ValidNameForAnyInput ==
  sanitized.given =>
    LET out == sanitized.value
        n == Len(nameInput)
    IN  /\ Len(out) >= 1
        /\ Len(out) <= 63
        /\ \A k \in 1 .. Len(out) :
             out[k] \in Letters \cup Digits \cup {"_", ".", "-"}
        /\ n <= 63 => out = Substituted
        /\ n > 63 =>
             /\ \A k \in 1 .. 28 : out[k] = Substituted[k]
             /\ \A k \in 1 .. 32 : out[Len(out) - 32 + k] = Substituted[n - 32 + k]

\* C31: generateValidName shortens exactly when the substituted string is
\* longer than 63 characters, and then returns its first 28 characters,
\* '___' and its last 32 characters, 63 characters in all; a substituted
\* string of at most 63 characters is returned as it is.
C31_ShortensBeyondLimit ==
  sanitized.given =>
    LET n == Len(Substituted) IN
      IF n > 63
        THEN /\ sanitized.value =
                  SubSeq(Substituted, 1, 28) \o <<"_", "_", "_">>
                  \o SubSeq(Substituted, n - 31, n)
             /\ Len(sanitized.value) = 63
        ELSE sanitized.value = Substituted

\* a name of 64 characters is shortened to 63
C31_Witness ==
  /\ sanitized.given
  /\ Len(nameInput) = 64
  /\ Len(sanitized.value) = 63
  /\ SubSeq(sanitized.value, 29, 31) = <<"_", "_", "_">>

\* the fields of a tool definition that qualifying leaves as they are
SameTool(a, b) ==
  /\ a.serverName = b.serverName
  /\ a.serverToolName = b.serverToolName
  /\ a.description = b.description
  /\ a.parameterSchema = b.parameterSchema
  /\ a.trust = b.trust
  /\ a.mcpTool = b.mcpTool

\* C32: asFullyQualifiedTool returns a new definition whose name is the
\* server name, '__' and the raw server tool name, and whose server, raw
\* tool name, description, schema, trust flag and callable are those of
\* the input; qualifying a qualified definition gives the same name
\* again; and the input definition, its name included, stays as it was.
C32_QualifiedToolDerived ==
  /\ [](\A k \in 2 .. Len(definitions) :
          /\ definitions[k].name =
               definitions[k - 1].serverName \o <<"_", "_">>
               \o definitions[k - 1].serverToolName
          /\ SameTool(definitions[k], definitions[k - 1])
          /\ k >= 3 => definitions[k].name = definitions[k - 1].name)
  /\ [][\A k \in DOMAIN definitions :
          k \in DOMAIN definitions' /\ definitions'[k] = definitions[k]]_vars

\* a definition named by sanitizing, qualified twice
C32_Witness ==
  /\ Len(definitions) = 3
  /\ Len(nameInput) = 1
  /\ definitions[1].name = <<"_">>
  /\ definitions[1].serverName = <<"s", ".", "t">>
  /\ definitions[2].name = <<"s", ".", "t", "_", "_">> \o nameInput
  /\ definitions[3].name = definitions[2].name

\* C33: a tool definition created without an override name is named by
\* the sanitized raw server tool name, one created with an override by
\* exactly the override, unsanitized; either way the raw server tool name
\* is kept as it is and is the name sent to the server.
C33_NameIsOverrideOrSanitized ==
  Len(definitions) >= 1 =>
    LET d == definitions[1] IN
      /\ \A c \in Creations :
           c.serverName = d.serverName =>
             d.name = IF c.nameOverride.given
                      THEN c.nameOverride.value
                      ELSE IF Len(Substituted) > 63
                        THEN SubSeq(Substituted, 1, 28) \o <<"_", "_", "_">>
                             \o SubSeq(Substituted, Len(Substituted) - 31,
                                       Len(Substituted))
                        ELSE Substituted
      /\ d.serverToolName = nameInput
      /\ functionCalls(DiscoveredMCPToolInvocation(d, "{}"))[1].name = nameInput

\* an override with a space in it and a raw name that is not valid
C33_Witness ==
  /\ Len(definitions) >= 1
  /\ definitions[1].serverName = <<"o">>
  /\ definitions[1].name = <<"m", "y", " ", "t", "o", "o", "l">>
  /\ nameInput = <<"$", "/">>
  /\ definitions[1].serverToolName = nameInput

\* the definition was created without an override, or derived
Unnamed(k) == k >= 2 \/ definitions[k].serverName # <<"o">>

\* C36: every tool definition created without an override name, and every
\* one derived by asFullyQualifiedTool, has a name of letters, digits,
\* '_', '.' and '-' only that is at most 63 characters long, whatever the
\* server name and the raw tool name.
C36_DefinitionNamesValid ==
  \A k \in DOMAIN definitions :
    Unnamed(k) =>
      /\ Len(definitions[k].name) <= 63
      /\ \A j \in DOMAIN definitions[k].name :
           definitions[k].name[j] \in Letters \cup Digits \cup {"_", ".", "-"}


\* C35: while no proceed-always-server was chosen, an invocation whose
\* (server, tool) pair was not chosen with proceed-always-tool, and which
\* is not trusted by folder and trust flag, is asked to be confirmed: a
\* proceed-always-tool decision for tool T of server S suppresses
\* confirmation only for tool T of server S, also where another server is
\* named S.T or another pair joins to the same key.
C35_AlwaysToolOnlyForItsPair ==
  [][\A i \in Slots :
       ( /\ GateReturns(i)
         /\ ~FolderAndToolTrusted(i)
         /\ alwaysServer = {}
         /\ <<inv[i].serverName, inv[i].serverToolName>> \notin alwaysTool )
         => confirmation'[i].kind = "mcp"]_vars


\* the shape of an image result: images is a list, not empty, and every
\* element of it has a filePath and a mimeType field
ImageResultShape(value) ==
  /\ Has(value, "images")
  /\ isArray(value.images)
  /\ Len(value.images) > 0
  /\ \A k \in DOMAIN value.images :
       Has(value.images[k], "filePath") /\ Has(value.images[k], "mimeType")

\* C34: isImageResult is true exactly for an object with a non-empty images
\* array whose every element is an object with a filePath and a mimeType
\* field; it is false for null, undefined, strings, numbers, objects
\* without images, an empty images array and any element that misses one
\* of the two fields.  A display payload of the normalizer is classified
\* as an image result if and only if an image block of the response was
\* resolved, and never when it is text.
C34_ClassifiesImageResults ==
  toolMessage.rendered =>
    /\ toolMessage.isImage <=> ImageResultShape(toolMessage.resultDisplay)
    /\ toolMessage.resultDisplay
         \in {JsNull, NoDisplay, JsString("string"),
              [type |-> "number", value |-> "123"], [text |-> "no images"],
              [images |-> <<>>]}
         => ~toolMessage.isImage
    /\ request.given =>
         /\ toolMessage.resultDisplay = display
         /\ toolMessage.isImage <=>
              /\ GivenContent
              /\ \E k \in 1 .. Len(GivenBlocks) :
                   IsImage(GivenBlocks[k]) /\ Resolves(GivenBlocks[k])
         /\ (Has(display, "type") /\ display.type = "string")
              => ~toolMessage.isImage

\* a response with two resolved images is on screen as an image result
C34_Witness ==
  /\ toolMessage.rendered
  /\ request.given
  /\ toolMessage.isImage
  /\ Len(toolMessage.resultDisplay.images) = 2


RowsOfTerminal ==
  IF imageDisplay.terminalDimensions.measured
    THEN imageDisplay.terminalDimensions.viewportHeight
           \div imageDisplay.terminalDimensions.cellHeight
    ELSE 24

C38_ActiveSettingVisible ==
  /\ [](dialog.rendered =>
          /\ 0 <= dialog.scrollOffset
          /\ dialog.scrollOffset <= dialog.activeSettingIndex
          /\ dialog.activeSettingIndex < dialog.scrollOffset + 8
          /\ dialog.activeSettingIndex < Len(SettingDefinitions))
  /\ [][(dialog.rendered /\ dialog'.rendered
         /\ dialog'.activeSettingIndex # dialog.activeSettingIndex)
          => dialog.focusSection = "settings"]_vars

\* the last of the items is active, the window scrolled down to it
C38_Witness ==
  /\ dialog.rendered
  /\ dialog.activeSettingIndex = Len(SettingDefinitions) - 1
  /\ dialog.scrollOffset = Len(SettingDefinitions) - 8
  /\ dialog.scrollOffset > 0

\* C39: toggling the same setting that requires a restart twice in a row,
\* the scope unchanged, returns its pending value to the value it had
\* before the first toggle.
C39_TwoTogglesRestoreValue ==
  ( /\ dialog.rendered
    /\ lastToggle.count = 2
    /\ requiresRestart(lastToggle.key) )
    => getSettingValue(lastToggle.key, dialog.pendingSettings)
         = lastToggle.before


\* C40: once every read of images has settled, the image result shown is
\* the one of the current text and workspace root: the result of a read
\* started for an earlier text never replaces the state of a newer text,
\* the null of a text without image references included.
C40_SettledResultMatchesText ==
  (userMessage.rendered /\ userMessage.reads = <<>>) =>
    userMessage.imageResult =
      readImagesAsImageResult(
        imagePathsOf[userMessage.text, userMessage.workspaceRoot], files)

=============================================================================
